---- MODULE Spec2Model ----
(***************************************************************************)
(* State-machine model of the zo market maker (rust/zo) and of the nord    *)
(* orderbook stream (rust/nord) it is built on.                            *)
(*                                                                         *)
(* The module holds groups of state, each with its own specifications so   *)
(* that a component is explored without the state of the others:           *)
(*   posVars   PositionTracker cell, apply_fill callers, sync task         *)
(*   diffVars  inputs and result of the pure diff_orders                   *)
(*   ordVars   update_quotes / cancel_orders and the exchange they submit  *)
(*             to, with the event loop of MarketMaker::run calling them    *)
(*   obVars    OrderbookStream background task and its delta broadcast     *)
(*                                                                         *)
(* Numbers: base sizes are integers in units of 1e-4 base asset (one lot   *)
(* at size_decimals = 4); prices are integers in ticks; wall-clock time is *)
(* in milliseconds.                                                        *)
(***************************************************************************)
EXTENDS Integers, Sequences, FiniteSets, TLC

\* The field names of the records of this model, in the order in which every
\* record below lists its fields.
FieldNames ==
    [account |-> 0, account_id |-> 0, after_lag |-> 0, allowed_sides |-> 0,
     applied |-> 0, ask |-> 0, asks |-> 0, base_size |-> 0, bbo |-> 0,
     best_ask |-> 0, best_bid |-> 0, bid |-> 0, bids |-> 0, cancels |-> 0,
     count |-> 0, current_size |-> 0, events |-> 0, exp |-> 0,
     fair_price |-> 0, fill_mode |-> 0, fills |-> 0, frac |-> 0,
     has_perp |-> 0, head |-> 0, idle |-> 0, is_close_mode |-> 0,
     is_long |-> 0, is_reduce_only |-> 0, kept |-> 0, kind |-> 0,
     last_second |-> 0, last_update_id |-> 0, local |-> 0, lost |-> 0,
     mant |-> 0, market_id |-> 0, market_symbol |-> 0, matched |-> 0,
     mid |-> 0, min_samples |-> 0, neg |-> 0, now_ms |-> 0, offset |-> 0,
     order_id |-> 0, panicked |-> 0, ping_in |-> 0, places |-> 0,
     pong_in |-> 0, position_state |-> 0, posted |-> 0, prev_id |-> 0,
     price |-> 0, quantity |-> 0, quotes |-> 0, reference_mid |-> 0,
     remaining |-> 0, result |-> 0, samples |-> 0, second |-> 0,
     server |-> 0, side |-> 0, size |-> 0, size_base |-> 0, stale_in |-> 0,
     timestamp |-> 0, to_cancel |-> 0, to_place |-> 0, update |-> 0,
     update_id |-> 0, waited |-> 0, whole |-> 0, window_ms |-> 0]

VARIABLES
    \* ---- PositionTracker (zo/src/mm/position.rs)
    base_size,      \* the AtomicU64 cell, as the signed size it encodes
    fill_pc,        \* per apply_fill caller: "idle" | "load" | "cas"
    fill_old,       \* per caller: the value its last load returned (old_bits)
    fill_arg,       \* per caller: the (side, size) of the call in progress
    fill_sum,       \* history: signed sum of the sizes of all calls made
    fill_calls,     \* history: number of apply_fill calls made
    fill_retried,   \* history: some compare-exchange found the cell changed
    sync_pc,        \* sync_from_server: "idle" | "fetched" | "loaded"
    sync_server,    \* server_size computed from the fetched account
    sync_local,     \* local_size read from the cell (line 215)
    sync_last       \* history: what the last step of sync_from_server did

posVars == <<base_size, fill_pc, fill_old, fill_arg, fill_sum, fill_calls,
             fill_retried, sync_pc, sync_server, sync_local, sync_last>>

VARIABLES
    \* ---- diff_orders as a pure function (zo/src/orders.rs)
    d_current,      \* input: the current orders
    d_quotes,       \* input: the desired quotes
    d_result        \* <<>> before the call, <<[kept, to_cancel, to_place]>> after

diffVars == <<d_current, d_quotes, d_result>>

VARIABLES
    \* ---- one OrderbookSide as a data structure (nord/src/orderbook.rs)
    side_is_ask,    \* the side's is_ask
    side_levels,    \* the side's levels, as a set of [price, size]
    side_snapshot,  \* history: the entries of the last set_snapshot call
    side_deltas     \* history: the entry lists of the apply_deltas calls
                    \*   made since, in order

sideVars == <<side_is_ask, side_levels, side_snapshot, side_deltas>>

VARIABLES
    \* ---- Quoter::get_quotes as a pure function (zo/src/mm/quoter.rs)
    q_ctx,          \* input: the QuotingContext
    q_out           \* <<>> before the call, <<[bbo, quotes]>> after

quoterVars == <<q_ctx, q_out>>

VARIABLES
    \* ---- to_scaled_u64 as a pure function (nord/src/utils.rs)
    w_x,            \* input: the Decimal
    w_decimals,     \* input: the number of decimals
    w_out           \* <<>> before the call, <<outcome>> after

wireVars == <<w_x, w_decimals, w_out>>

VARIABLES
    \* ---- the reference feed's task with its timers (zo/src/feed.rs)
    feed_conn,      \* the locals of run_price_connection, in seconds
    feed_wake,      \* seconds left of time::sleep(RECONNECT_DELAY)
    feed_last       \* history: [what the task did last, the seconds it has
                    \*   slept since its connection ended]

feedVars == <<feed_conn, feed_wake, feed_last>>

VARIABLES
    \* ---- one update_quotes / cancel_orders call and the exchange it talks to
    call_pc,        \* "idle" | "send" | "await" | "ok" | "err"
    call_kind,      \* "update" | "cancel"
    call_current,   \* argument: current_orders (update) or orders (cancel)
    call_quotes,    \* argument: new_quotes (update)
    call_diff,      \* diff_orders' result for an update, as [kept, to_cancel, to_place]
    call_actions,   \* the action list handed to execute_atomic
    call_idx,       \* index (from 1) of the chunk being sent or awaited
    call_placed,    \* all_placed so far
    call_result,    \* Ok value of the call: the new active-order list
    in_flight,      \* atomic submissions sent and not yet answered
    submitted,      \* history: the chunks sent to the exchange by this call
    next_order_id,  \* exchange: the id the next posted order gets
    resting         \* exchange: the account's open orders on the market,
                    \* followed where the exchange's side is a step (Exch*)

ordVars == <<call_pc, call_kind, call_current, call_quotes, call_diff,
             call_actions, call_idx, call_placed, call_result, in_flight,
             submitted, next_order_id, resting>>

VARIABLES
    \* ---- OrderbookStream background task (nord/src/orderbook.rs)
    ob_pc,            \* "fetch_init" | "select" | "fetch_stale" | "fetch_lag" | "exited"
    bids,             \* inner.bids.levels, a set of [price, size]
    asks,             \* inner.asks.levels
    last_update_id,   \* inner.last_update_id
    last_update_time, \* inner.last_update_time
    snapshot_loaded,  \* inner.snapshot_loaded
    delta_buffer,     \* inner.delta_buffer
    chan,             \* delta_rx: the updates sent and not yet received
    chan_lagged,      \* delta_rx: the receiver missed updates (next recv is Lagged)
    chan_closed,      \* delta_rx: every sender is gone
    now,              \* wall clock, epoch milliseconds
    price_rx,         \* watch channel of MidPrice: <<>> (None) or <<price>>
    depth_rx,         \* watch channel of OrderbookDepth: <<>> or <<depth>>
    ready,            \* ready_tx: "pending" | "ok" | "err"
    srv_id,           \* exchange: update_id of the last delta it sent
    ob_last,          \* history: the handler the task ran last
    ob_applied,       \* history: the deltas that handler applied to the book
    ob_snapshot_id,   \* history: update_id of the snapshot loaded last
    emit_depth,       \* history: depth sends made by that handler
    emit_mid          \* history: mid-price sends made by that handler

obVars == <<ob_pc, bids, asks, last_update_id, last_update_time, snapshot_loaded,
            delta_buffer, chan, chan_lagged, chan_closed, now, price_rx,
            depth_rx, ready, srv_id, ob_last, ob_applied, ob_snapshot_id,
            emit_depth, emit_mid>>

VARIABLES
    \* ---- MarketMaker::run event loop (zo/src/mm/bot.rs)
    loop_pc,          \* "select" | "update" | "fill_cancel" | "order_sync"
                      \*   | "shutdown_cancel" | "done"
    active_orders,    \* the loop's cache of resting orders
    fair_price_calc,  \* FairPriceCalculator: [count, head, last_second,
                      \*   min_samples, samples, window_ms]
    fp_add,           \* history: <<>> or <<the add_sample call a caller of the
                      \*   calculator alone made in the last step>>
    fp_out,           \* history: the get_fair_price call made on the calculator
                      \*   as it is now, <<[now_ms, panicked, reference_mid,
                      \*   result]>>, or <<>>
    update_throttle,  \* config.update_throttle_ms
    loop_update_time, \* the loop's last_update_time (an Instant), as clock time
    binance_price,    \* the reference feed's watch channel: <<>> or <<price>>
    cancelled,        \* the CancellationToken handed to run
    closed,           \* the close() calls run has made, in order
    loop_last,        \* history: the handler the loop ran last, as [kind, the
                      \*   orders placed by an update that then failed, the
                      \*   price of the fill]
    quote_started,    \* history: <<>> or <<the time execute_update was entered last>>
    ws_pc,            \* NordWebSocketClient task: "connecting" | "connected"
                      \*   | "sleeping" | "exited"
    feed_pc,          \* BinancePriceFeed task: "connecting" | "connected"
                      \*   | "backoff" | "exited"
    acct_pc,          \* run_account_task: "select" | "resync" | "closed_wait"
                      \*   | "exited"
    possync_pc,       \* start_sync task: "syncing" | "waiting" | "exited"
    tracked,          \* AccountStream: the orders map in the watch channel,
                      \*   a function from order ids to TrackedOrder
    acct_last         \* history: what the account stream did last, as [kind,
                      \*   the update received, the FillEvents sent in
                      \*   order, the result of the REST fetch]

\* The data of the account stream.
acctVars == <<tracked, acct_last>>

\* The tasks run spawns.
taskVars == <<ws_pc, feed_pc, acct_pc, possync_pc, acctVars>>

loopVars == <<loop_pc, active_orders, fair_price_calc, fp_add, fp_out, update_throttle,
              loop_update_time, binance_price, cancelled, closed, loop_last,
              quote_started, taskVars>>

vars == <<posVars, diffVars, sideVars, quoterVars, wireVars, feedVars, ordVars, obVars, loopVars>>

-----------------------------------------------------------------------------
(* Shared helpers *)

Abs(x) == IF x < 0 THEN -x ELSE x

Min(a, b) == IF a <= b THEN a ELSE b

Sides == {"Bid", "Ask"}

\* The market the bot trades, and another market of the same exchange.
MarketId == 1

OtherMarketId == 2

\* The wall clock when the process starts its tasks, epoch milliseconds.
StartTime == 100000

-----------------------------------------------------------------------------
(* PositionTracker *)

\* Number of tasks that may call apply_fill on the same tracker at once.
NumCallers == 2

\* Total number of apply_fill calls explored.
MaxFillCalls == 3

Callers == 1..NumCallers

FillSizes == {1, 2}

\* 0.0001 base asset, the drift tolerance of sync_from_server, in size units.
DriftEps == 1

\* The tracker's steps leave the other components' state alone.
PosFrame == UNCHANGED <<diffVars, sideVars, quoterVars, wireVars, feedVars, ordVars, obVars, loopVars>>

\* The history record of sync_from_server: what it did last, the positions
\* of the account it fetched, the local size it read and the server size.
Synced(kind, account, local, server) ==
    [account |-> account, kind |-> kind, local |-> local, server |-> server]

\* PositionTracker::new: the cell starts at 0.0.
PosInit ==
    /\ base_size = 0
    /\ fill_pc = [c \in Callers |-> "idle"]
    /\ fill_old = [c \in Callers |-> 0]
    /\ fill_arg = [c \in Callers |-> [side |-> "Bid", size |-> 0]]
    /\ fill_sum = 0
    /\ fill_calls = 0
    /\ fill_retried = FALSE
    /\ sync_pc = "idle"
    /\ sync_server = 0
    /\ sync_local = 0
    /\ sync_last = Synced("none", <<>>, 0, 0)

\* match side { Bid => old + size, Ask => old - size }
FillNew(old, side, size) == IF side = "Bid" THEN old + size ELSE old - size

\* A task enters apply_fill(side, size).
FillCall(c, side, size) ==
    /\ fill_pc[c] = "idle"
    /\ PosFrame
    /\ fill_calls < MaxFillCalls
    /\ fill_pc' = [fill_pc EXCEPT ![c] = "load"]
    /\ fill_arg' = [fill_arg EXCEPT ![c] = [side |-> side, size |-> size]]
    /\ fill_sum' = FillNew(fill_sum, side, size)
    /\ fill_calls' = fill_calls + 1
    /\ UNCHANGED <<base_size, fill_old, fill_retried,
                   sync_pc, sync_server, sync_local,
                   sync_last>>

\* let old_bits = self.base_size.load(Relaxed)
FillLoad(c) ==
    /\ fill_pc[c] = "load"
    /\ PosFrame
    /\ fill_old' = [fill_old EXCEPT ![c] = base_size]
    /\ fill_pc' = [fill_pc EXCEPT ![c] = "cas"]
    /\ UNCHANGED <<base_size, fill_arg, fill_sum, fill_calls, fill_retried,
                   sync_pc, sync_server, sync_local,
                   sync_last>>

\* The plain store a compare_exchange would degrade to without its compare.
CasSucceedsAlways(cell, expected) == TRUE

\* compare_exchange(old_bits, new): succeeds iff the cell still holds old_bits.
CasSucceeds(cell, expected) == cell = expected

\* compare_exchange_weak succeeded: the cell takes the new value, the call
\* returns; or it found another value in the cell: loop again.
FillCas(c) ==
    /\ fill_pc[c] = "cas"
    /\ PosFrame
    /\ IF CasSucceeds(base_size, fill_old[c])
       THEN /\ base_size' = FillNew(fill_old[c], fill_arg[c].side, fill_arg[c].size)
            /\ fill_pc' = [fill_pc EXCEPT ![c] = "idle"]
            /\ fill_arg' = [fill_arg EXCEPT ![c] = [side |-> "Bid", size |-> 0]]
            /\ fill_old' = [fill_old EXCEPT ![c] = 0]
            /\ UNCHANGED fill_retried
       ELSE /\ fill_pc' = [fill_pc EXCEPT ![c] = "load"]
            /\ fill_retried' = TRUE
            /\ UNCHANGED <<base_size, fill_arg, fill_old>>
    /\ UNCHANGED <<fill_sum, fill_calls, sync_pc, sync_server, sync_local,
                   sync_last>>

\* compare_exchange_weak may fail spuriously even when the value matches.
FillCasSpurious(c) ==
    /\ fill_pc[c] = "cas"
    /\ PosFrame
    /\ fill_pc' = [fill_pc EXCEPT ![c] = "load"]
    /\ UNCHANGED <<base_size, fill_old, fill_arg, fill_sum, fill_calls,
                   fill_retried, sync_pc, sync_server, sync_local,
                   sync_last>>

\* Positions an account can report: market, whether it has a perp leg,
\* direction and unsigned base size.
Position(m, hasPerp, isLong, size) ==
    [base_size |-> size, has_perp |-> hasPerp, is_long |-> isLong, market_id |-> m]

AccountPositions ==
    { <<>>,
      <<Position(MarketId, TRUE, TRUE, 2)>>,
      <<Position(MarketId, TRUE, FALSE, 1)>>,
      <<Position(OtherMarketId, TRUE, TRUE, 2), Position(MarketId, TRUE, TRUE, 1)>>,
      <<Position(OtherMarketId, TRUE, TRUE, 2)>>,
      <<Position(MarketId, FALSE, TRUE, 2)>> }

\* positions.iter().find(|p| p.market_id == market_id)
RECURSIVE FindPosition(_, _)
FindPosition(positions, m) ==
    IF positions = <<>> THEN <<>>
    ELSE IF Head(positions).market_id = m THEN <<Head(positions)>>
    ELSE FindPosition(Tail(positions), m)

\* .and_then(|p| p.perp).map(|perp| if is_long {size} else {-size}).unwrap_or(0.0)
ServerSize(positions, m) ==
    LET found == FindPosition(positions, m) IN
    IF found = <<>> THEN 0
    ELSE IF ~found[1].has_perp THEN 0
    ELSE IF found[1].is_long THEN found[1].base_size
    ELSE -found[1].base_size

\* nord.get_account(account_id).await returned Ok(account).
SyncFetchOk(positions) ==
    /\ sync_pc = "idle"
    /\ PosFrame
    /\ sync_server' = ServerSize(positions, MarketId)
    /\ sync_pc' = "fetched"
    /\ sync_last' = Synced("fetched", positions, 0, 0)
    /\ UNCHANGED <<base_size, fill_pc, fill_old, fill_arg, fill_sum, fill_calls,
                   fill_retried, sync_local>>

\* nord.get_account failed: log and return, the cell is not touched.
SyncFetchErr ==
    /\ sync_pc = "idle"
    /\ PosFrame
    /\ sync_last' = Synced("failed", <<>>, 0, 0)
    /\ UNCHANGED <<base_size, fill_pc, fill_old, fill_arg, fill_sum, fill_calls,
                   fill_retried, sync_pc, sync_server, sync_local>>

\* let local_size = f64::from_bits(base_size.load(Relaxed))
SyncLoad ==
    /\ sync_pc = "fetched"
    /\ PosFrame
    /\ sync_local' = base_size
    /\ sync_pc' = "loaded"
    /\ UNCHANGED <<base_size, fill_pc, fill_old, fill_arg, fill_sum, fill_calls,
                   fill_retried, sync_server, sync_last>>

\* A comparison that also takes a difference of exactly 0.0001 as drift.
DriftedOrEqual(local, server) == Abs(local - server) >= DriftEps

\* (local_size - server_size).abs() > 0.0001
Drifted(local, server) == Abs(local - server) > DriftEps

\* if drifted { base_size.store(server_size) }
SyncStore ==
    /\ sync_pc = "loaded"
    /\ PosFrame
    /\ base_size' = IF Drifted(sync_local, sync_server)
                    THEN sync_server ELSE base_size
    /\ sync_last' = Synced("done", sync_last.account, sync_local, sync_server)
    /\ sync_pc' = "idle"
    /\ sync_local' = 0
    /\ sync_server' = 0
    /\ UNCHANGED <<fill_pc, fill_old, fill_arg, fill_sum, fill_calls, fill_retried>>

FillNext ==
    \/ \E c \in Callers, s \in Sides, z \in FillSizes : FillCall(c, s, z)
    \/ \E c \in Callers : FillLoad(c)
    \/ \E c \in Callers : FillCas(c)
    \/ \E c \in Callers : FillCasSpurious(c)

SyncNext ==
    \/ \E p \in AccountPositions : SyncFetchOk(p)
    \/ SyncFetchErr
    \/ SyncLoad
    \/ SyncStore

\* The event loop's apply_fill calls, one at a time, next to the sync task.
LoopFillNext ==
    \/ \E s \in Sides, z \in FillSizes : FillCall(1, s, z)
    \/ FillLoad(1)
    \/ FillCas(1)
    \/ FillCasSpurious(1)

-----------------------------------------------------------------------------
(* Order reconciler: diff_orders (zo/src/orders.rs) *)

\* const MAX_ATOMIC_ACTIONS: usize = 4
MAX_ATOMIC_ACTIONS == 4

\* The quoter returns at most one bid and one ask (Vec::with_capacity(2)).
MaxQuotes == 2

\* Longest current-order list given to diff_orders on its own.
MaxDiffCurrent == 3

\* Longest current-order list given to update_quotes / cancel_orders.
MaxCurrent == 5

CachedOrder(id, side, price, size) ==
    [order_id |-> id, price |-> price, side |-> side, size |-> size]

Quote(side, price, size) == [price |-> price, side |-> side, size |-> size]

\* Quotes that differ from one another in side, in price or in size.
QuoteKinds ==
    { Quote("Bid", 10, 1), Quote("Bid", 9, 1), Quote("Bid", 10, 2),
      Quote("Ask", 10, 1) }

\* All sequences over S of length at most n.
SeqsUpTo(S, n) == UNION { [1..k -> S] : k \in 0..n }

\* Current orders: each of a quote's kind, with its own order id.
OrdersOf(kinds) == [i \in DOMAIN kinds |->
    CachedOrder(10 + i, kinds[i].side, kinds[i].price, kinds[i].size)]

\* order_matches_quote with the size comparison left out.
order_matches_quote_no_size(order, quote) ==
    order.side = quote.side /\ order.price = quote.price

\* order.side == quote.side && order.price == quote.price && order.size == quote.size
order_matches_quote(order, quote) ==
    order.side = quote.side /\ order.price = quote.price /\ order.size = quote.size

\* current.iter().enumerate().position(|(i, o)| !matched[i] && matches(o, quote)),
\* scanning from index i; 0 stands for None.
RECURSIVE FirstMatch(_, _, _, _)
FirstMatch(current, matched, quote, i) ==
    IF i > Len(current) THEN 0
    ELSE IF ~matched[i] /\ order_matches_quote(current[i], quote) THEN i
    ELSE FirstMatch(current, matched, quote, i + 1)

\* The loop `for quote in new_quotes` from quote j on, carrying matched_indices,
\* kept and to_place.
RECURSIVE DiffQuotes(_, _, _, _, _, _)
DiffQuotes(current, quotes, j, matched, kept, place) ==
    IF j > Len(quotes)
    THEN [kept |-> kept, matched |-> matched, to_place |-> place]
    ELSE LET idx == FirstMatch(current, matched, quotes[j], 1) IN
         IF idx # 0
         THEN DiffQuotes(current, quotes, j + 1, [matched EXCEPT ![idx] = TRUE],
                         Append(kept, current[idx]), place)
         ELSE DiffQuotes(current, quotes, j + 1, matched, kept,
                         Append(place, quotes[j]))

\* current.iter().enumerate().filter(|(i, _)| !matched[i]), from index i on.
RECURSIVE Unmatched(_, _, _)
Unmatched(current, matched, i) ==
    IF i > Len(current) THEN <<>>
    ELSE IF ~matched[i] THEN <<current[i]>> \o Unmatched(current, matched, i + 1)
    ELSE Unmatched(current, matched, i + 1)

\* diff_orders: (kept_orders, orders_to_cancel, quotes_to_place).
diff_orders(current, quotes) ==
    LET r == DiffQuotes(current, quotes, 1,
                        [i \in 1..Len(current) |-> FALSE], <<>>, <<>>) IN
    [kept |-> r.kept,
     to_cancel |-> Unmatched(current, r.matched, 1),
     to_place |-> r.to_place]

DiffIdle ==
    /\ d_current = <<>>
    /\ d_quotes = <<>>
    /\ d_result = <<>>

DiffInit ==
    /\ d_current \in { OrdersOf(k) : k \in SeqsUpTo(QuoteKinds, MaxDiffCurrent) }
    /\ d_quotes \in SeqsUpTo(QuoteKinds, MaxQuotes)
    /\ d_result = <<>>

\* let (kept, to_cancel, to_place) = diff_orders(current, new_quotes)
DiffCall ==
    /\ d_result = <<>>
    /\ d_result' = <<diff_orders(d_current, d_quotes)>>
    /\ UNCHANGED <<d_current, d_quotes>>
    /\ UNCHANGED <<posVars, sideVars, quoterVars, wireVars, feedVars, ordVars, obVars, loopVars>>

DiffNext == DiffCall

-----------------------------------------------------------------------------
(* Order reconciler: update_quotes, cancel_orders, execute_atomic *)

\* Largest order id the exchange hands out.
MaxOrderId == 3

\* Kinds of the orders and quotes given to update_quotes / cancel_orders.
CallKinds == { Quote("Bid", 10, 1), Quote("Ask", 11, 1) }

\* build_cancel_action
build_cancel_action(order_id) == [kind |-> "Cancel", order_id |-> order_id]

\* A place action that may take liquidity and only reduce the position.
build_place_action_taker(market_id, quote) ==
    [fill_mode |-> "ImmediateOrCancel", is_reduce_only |-> TRUE, kind |-> "Place",
     market_id |-> market_id, price |-> quote.price, side |-> quote.side,
     size |-> quote.size]

\* build_place_action
build_place_action(market_id, quote) ==
    [fill_mode |-> "PostOnly", is_reduce_only |-> FALSE, kind |-> "Place",
     market_id |-> market_id, price |-> quote.price, side |-> quote.side,
     size |-> quote.size]

\* update_quotes lines 48-56: cancels first, then places.
BuildActions(to_cancel, to_place, market_id) ==
    [i \in 1..Len(to_cancel) |-> build_cancel_action(to_cancel[i].order_id)]
    \o [i \in 1..Len(to_place) |-> build_place_action(market_id, to_place[i])]

\* Chunks one subaction too long.
ChunkTooLong(actions, k) ==
    SubSeq(actions, (k - 1) * (MAX_ATOMIC_ACTIONS + 1) + 1,
           Min(k * (MAX_ATOMIC_ACTIONS + 1), Len(actions)))

\* actions.chunks(MAX_ATOMIC_ACTIONS): the k-th chunk, k from 1.
Chunk(actions, k) ==
    SubSeq(actions, (k - 1) * MAX_ATOMIC_ACTIONS + 1,
           Min(k * MAX_ATOMIC_ACTIONS, Len(actions)))

\* actions.len().div_ceil(MAX_ATOMIC_ACTIONS)
TotalChunks(actions) ==
    (Len(actions) + MAX_ATOMIC_ACTIONS - 1) \div MAX_ATOMIC_ACTIONS

\* actions.iter().filter(|a| matches!(a, Place { .. }))
PlaceActions(actions) == SelectSeq(actions, LAMBDA a : a.kind = "Place")

\* extract_placed_orders: walk the results, pairing the n-th PlaceOrderResult
\* with the n-th Place action; a posted one yields a CachedOrder.
RECURSIVE ExtractFrom(_, _, _, _)
ExtractFrom(results, places, i, place_idx) ==
    IF i > Len(results) THEN <<>>
    ELSE IF results[i].kind = "PlaceOrderResult"
    THEN (IF results[i].posted # 0 /\ place_idx <= Len(places)
          THEN <<CachedOrder(results[i].posted, places[place_idx].side,
                             places[place_idx].price, places[place_idx].size)>>
          ELSE <<>>)
         \o ExtractFrom(results, places, i + 1, place_idx + 1)
    ELSE ExtractFrom(results, places, i + 1, place_idx)

extract_placed_orders(results, actions) ==
    ExtractFrom(results, PlaceActions(actions), 1, 1)

\* A success receipt of the exchange for a chunk: one result per subaction, in
\* order; the places named in `posts` (by their rank among the chunk's places)
\* rest on the book and get the ids from `first_id` on, the others are
\* reported filled or rejected (posted = None, modelled as 0).
RECURSIVE ReceiptFrom(_, _, _, _, _)
ReceiptFrom(chunk, i, rank, posts, id) ==
    IF i > Len(chunk) THEN <<>>
    ELSE IF chunk[i].kind = "Cancel"
    THEN <<[kind |-> "CancelOrder", order_id |-> chunk[i].order_id]>>
         \o ReceiptFrom(chunk, i + 1, rank, posts, id)
    ELSE IF rank \in posts
    THEN <<[kind |-> "PlaceOrderResult", posted |-> id]>>
         \o ReceiptFrom(chunk, i + 1, rank + 1, posts, id + 1)
    ELSE <<[kind |-> "PlaceOrderResult", posted |-> 0]>>
         \o ReceiptFrom(chunk, i + 1, rank + 1, posts, id)

Receipt(chunk, posts, first_id) == ReceiptFrom(chunk, 1, 1, posts, first_id)

\* The exchange's open orders after it has applied a chunk: the cancelled ones
\* gone, and one order per posted Place, with the ids of the receipt.
ApplyChunk(open_orders, chunk, posts, first_id) ==
    LET cancels == { chunk[i].order_id :
                        i \in { j \in DOMAIN chunk : chunk[j].kind = "Cancel" } }
        places == PlaceActions(chunk)
        posted == { CachedOrder(first_id + Cardinality({ q \in posts : q < r }),
                                places[r].side, places[r].price, places[r].size) :
                       r \in posts \cap DOMAIN places } IN
    { o \in open_orders : o.order_id \notin cancels } \cup posted

\* The exchange's orders where they are not followed.
RestingIdle == resting = {}

\* The exchange holds the orders the caller knows of.
RestingSynced(orders) == resting = { orders[i] : i \in DOMAIN orders }

OrdInit ==
    /\ call_pc = "idle"
    /\ call_kind = "update"
    /\ call_current = <<>>
    /\ call_quotes = <<>>
    /\ call_diff = [kept |-> <<>>, to_cancel |-> <<>>, to_place |-> <<>>]
    /\ call_actions = <<>>
    /\ call_idx = 0
    /\ call_placed = <<>>
    /\ call_result = <<>>
    /\ in_flight = 0
    /\ submitted = <<>>
    /\ next_order_id = 1

\* Where execute_atomic goes after handing a chunk to user.atomic without
\* awaiting the receipt: straight on to the next chunk.
PcAfterSendNoAwait == "send"

\* user.atomic(chunk, None).await: the call is suspended until the receipt.
PcAfterSend == "await"

\* An update_quotes that never takes the early return of line 44.
NothingToDoNever(d) == FALSE

\* update_quotes line 44: to_cancel.is_empty() && to_place.is_empty()
NothingToDo(d) == d.to_cancel = <<>> /\ d.to_place = <<>>

\* update_quotes(user, market_id, current_orders, new_quotes) up to its first
\* await: diff; nothing to do returns Ok(current); else build the action list
\* and enter execute_atomic, which returns Ok(no placed orders) at once for an
\* empty action list, so that update_quotes returns the kept orders.
StartUpdateQuotes(current, quotes) ==
    LET d == diff_orders(current, quotes)
        actions == BuildActions(d.to_cancel, d.to_place, MarketId) IN
    /\ call_kind' = "update"
    /\ call_current' = current
    /\ call_quotes' = quotes
    /\ call_diff' = d
    /\ call_placed' = <<>>
    /\ submitted' = <<>>
    /\ UNCHANGED <<in_flight, next_order_id, resting>>
    /\ IF NothingToDo(d)
       THEN /\ call_pc' = "ok"
            /\ call_result' = current
            /\ call_actions' = <<>>
            /\ call_idx' = 0
       ELSE IF actions = <<>>
       THEN /\ call_pc' = "ok"
            /\ call_result' = d.kept
            /\ call_actions' = <<>>
            /\ call_idx' = 0
       ELSE /\ call_pc' = "send"
            /\ call_result' = <<>>
            /\ call_actions' = actions
            /\ call_idx' = 1

\* cancel_orders(user, orders) up to its first await: nothing for an empty
\* list, else one Cancel per order into execute_atomic.
StartCancelOrders(orders) ==
    /\ call_kind' = "cancel"
    /\ call_current' = orders
    /\ call_quotes' = <<>>
    /\ call_diff' = [kept |-> <<>>, to_cancel |-> <<>>, to_place |-> <<>>]
    /\ call_placed' = <<>>
    /\ call_result' = <<>>
    /\ submitted' = <<>>
    /\ UNCHANGED <<in_flight, next_order_id, resting>>
    /\ IF orders = <<>>
       THEN /\ call_pc' = "ok"
            /\ call_actions' = <<>>
            /\ call_idx' = 0
       ELSE /\ call_pc' = "send"
            /\ call_actions' =
                 [i \in 1..Len(orders) |-> build_cancel_action(orders[i].order_id)]
            /\ call_idx' = 1

\* A caller calls update_quotes.
CallUpdateQuotes(current, quotes) ==
    /\ call_pc = "idle"
    /\ StartUpdateQuotes(current, quotes)
    /\ UNCHANGED <<posVars, diffVars, sideVars, quoterVars, wireVars, feedVars, obVars, loopVars>>

\* A caller calls cancel_orders.
CallCancelOrders(orders) ==
    /\ call_pc = "idle"
    /\ StartCancelOrders(orders)
    /\ UNCHANGED <<posVars, diffVars, sideVars, quoterVars, wireVars, feedVars, obVars, loopVars>>

\* execute_atomic hands chunk call_idx to user.atomic: the request leaves.
ExecSend ==
    /\ call_pc = "send"
    /\ submitted' = Append(submitted, Chunk(call_actions, call_idx))
    /\ in_flight' = in_flight + 1
    /\ call_pc' = PcAfterSend
    /\ UNCHANGED <<call_kind, call_current, call_quotes, call_diff, call_actions,
                   call_idx, call_placed, call_result, next_order_id,
                   resting>>
    /\ UNCHANGED <<posVars, diffVars, sideVars, quoterVars, wireVars, feedVars, obVars, loopVars>>

\* The receipt of the awaited chunk arrives with results: collect the placed
\* orders, then go on to the next chunk or return Ok.
ReceiptOk(posts) ==
    /\ call_pc = "await"
    /\ in_flight > 0
    /\ LET chunk == Chunk(call_actions, call_idx)
           nposted == Cardinality(posts)
           results == Receipt(chunk, posts, next_order_id)
           placed == call_placed \o extract_placed_orders(results, chunk) IN
       /\ posts \subseteq 1..Len(PlaceActions(chunk))
       /\ next_order_id + nposted - 1 <= MaxOrderId
       /\ next_order_id' = next_order_id + nposted
       /\ in_flight' = in_flight - 1
       /\ call_placed' = placed
       /\ IF call_idx < TotalChunks(call_actions)
          THEN /\ call_idx' = call_idx + 1
               /\ call_pc' = "send"
               /\ UNCHANGED call_result
          ELSE /\ call_idx' = call_idx
               /\ call_pc' = "ok"
               /\ call_result' = IF call_kind = "update"
                                 THEN call_diff.kept \o placed ELSE <<>>
    /\ UNCHANGED <<call_kind, call_current, call_quotes, call_diff, call_actions,
                   submitted>>
    /\ UNCHANGED <<posVars, diffVars, sideVars, quoterVars, wireVars, feedVars, obVars, loopVars>>

\* The receipt arrives; the exchange's orders are not followed.
ExecReceiptOk(posts) ==
    /\ ReceiptOk(posts)
    /\ UNCHANGED resting

\* The exchange applies the awaited chunk and its receipt arrives.
ExchReceiptOk(posts) ==
    /\ ReceiptOk(posts)
    /\ resting' = ApplyChunk(resting, Chunk(call_actions, call_idx), posts,
                             next_order_id)

\* user.atomic returned Err (error receipt or transport error): `?` returns
\* the error at once, later chunks are not sent. The exchange has applied
\* nothing of the chunk.
ExecReceiptErr ==
    /\ call_pc = "await"
    /\ in_flight > 0
    /\ in_flight' = in_flight - 1
    /\ call_pc' = "err"
    /\ UNCHANGED <<call_kind, call_current, call_quotes, call_diff, call_actions,
                   call_idx, call_placed, call_result, submitted, next_order_id,
                   resting>>
    /\ UNCHANGED <<posVars, diffVars, sideVars, quoterVars, wireVars, feedVars, obVars, loopVars>>

OrdCallNext ==
    \/ \E k \in SeqsUpTo(CallKinds, MaxCurrent), q \in SeqsUpTo(CallKinds, MaxQuotes) :
         CallUpdateQuotes(OrdersOf(k), q)
    \/ \E k \in SeqsUpTo(CallKinds, MaxCurrent) : CallCancelOrders(OrdersOf(k))

ExecNext ==
    \/ ExecSend
    \/ \E posts \in SUBSET (1..MaxQuotes) : ExecReceiptOk(posts)
    \/ ExecReceiptErr

\* The same with the exchange's orders followed.
ExchNext ==
    \/ ExecSend
    \/ \E posts \in SUBSET (1..MaxQuotes) : ExchReceiptOk(posts)
    \/ ExecReceiptErr

-----------------------------------------------------------------------------
(* Fair-price estimator (zo/src/fair_price.rs) *)

\* const MAX_SAMPLES: usize = 500
MAX_SAMPLES == 500

\* Largest min_samples (warmup_seconds) a calculator is configured with.
MaxMinSamples == 2

\* Number of clock steps of a run of the calculator on its own.
MaxFairTicks == 6

\* window_ms of the configurations explored: two seconds, and a window longer
\* than the time since the epoch (the subtraction saturates).
FairWindows == {2000, 200000}

\* Mid prices fed to the calculator. They are even numbers of half ticks, so
\* that the mean of two offsets is a whole number; f64 rounding is not modelled.
ReferenceMids == {100}

LocalMids == {96, 100, 102}

\* FairPriceCalculator::new(config)
FairNew(min_samples, window_ms) ==
    [count |-> 0, head |-> 0, last_second |-> 0, min_samples |-> min_samples,
     samples |-> <<>>, window_ms |-> window_ms]

\* add_sample without the check on the second of the last sample.
add_sample_every_call(calc, local_mid, reference_mid, now_ms) ==
    LET sample == [offset |-> local_mid - reference_mid,
                   second |-> now_ms \div 1000] IN
    [calc EXCEPT
        !.last_second = now_ms \div 1000,
        !.samples = IF Len(calc.samples) < MAX_SAMPLES
                    THEN Append(calc.samples, sample)
                    ELSE [calc.samples EXCEPT ![calc.head + 1] = sample],
        !.head = (calc.head + 1) % MAX_SAMPLES,
        !.count = IF calc.count < MAX_SAMPLES THEN calc.count + 1
                  ELSE calc.count]

\* add_sample(&mut self, local_mid, reference_mid, now_ms): the calculator
\* after the call. `head` counts from 0, sequences from 1.
add_sample(calc, local_mid, reference_mid, now_ms) ==
    LET current_second == now_ms \div 1000
        sample == [offset |-> local_mid - reference_mid, second |-> current_second] IN
    IF current_second <= calc.last_second THEN calc
    ELSE [calc EXCEPT
            !.last_second = current_second,
            !.samples = IF Len(calc.samples) < MAX_SAMPLES
                        THEN Append(calc.samples, sample)
                        ELSE [calc.samples EXCEPT ![calc.head + 1] = sample],
            !.head = (calc.head + 1) % MAX_SAMPLES,
            !.count = IF calc.count < MAX_SAMPLES THEN calc.count + 1
                      ELSE calc.count]

\* cutoff_second: now_ms.saturating_sub(window_ms) / 1000
cutoff_second(now_ms, window_ms) ==
    (IF now_ms >= window_ms THEN now_ms - window_ms ELSE 0) \div 1000

\* self.samples[..self.count].iter().filter(|s| s.second > cutoff)
ValidSamples(calc, now_ms) ==
    SelectSeq(SubSeq(calc.samples, 1, calc.count),
              LAMBDA sm : sm.second > cutoff_second(now_ms, calc.window_ms))

\* collect_valid_offsets
collect_valid_offsets(calc, now_ms) ==
    LET valid == ValidSamples(calc, now_ms) IN
    [i \in 1..Len(valid) |-> valid[i].offset]

\* get_sample_count
get_sample_count(calc, now_ms) == Len(ValidSamples(calc, now_ms))

\* compute_median on a non-empty slice: select_nth_unstable_by(mid) leaves the
\* (mid+1)-th smallest value at index mid and the smaller ones before it; for
\* an even count the largest of those is averaged with it.
compute_median(values) ==
    LET n == Len(values)
        mid == n \div 2
        sorted == SortSeq(values, LAMBDA a, b : a < b) IN
    IF n % 2 = 1 THEN sorted[mid + 1]
    ELSE (sorted[mid] + sorted[mid + 1]) \div 2

\* compute_median on an empty slice: debug_assert!(n > 0) fails in a debug
\* build, select_nth_unstable_by(0) panics on an empty slice in a release
\* build.
MedianPanics(values) == Len(values) = 0

\* get_median_offset: <<>> for None, <<offset>> for Some(offset). Not defined
\* where compute_median panics.
get_median_offset(calc, now_ms) ==
    LET offsets == collect_valid_offsets(calc, now_ms) IN
    IF Len(offsets) < calc.min_samples THEN <<>>
    ELSE <<compute_median(offsets)>>

\* get_fair_price panics where get_median_offset reaches compute_median with
\* no offset.
FairPricePanics(calc, now_ms) ==
    LET offsets == collect_valid_offsets(calc, now_ms) IN
    ~(Len(offsets) < calc.min_samples) /\ MedianPanics(offsets)

\* get_fair_price: <<>> for None, <<price>> for Some(price).
get_fair_price(calc, reference_mid, now_ms) ==
    LET offset == get_median_offset(calc, now_ms) IN
    IF offset = <<>> THEN <<>> ELSE <<reference_mid + offset[1]>>

\* The calculator of the runs that do not use it.
FairIdle ==
    /\ fair_price_calc = FairNew(1, 2000)
    /\ fp_add = <<>>
    /\ fp_out = <<>>

FairFrame ==
    UNCHANGED <<posVars, diffVars, sideVars, quoterVars, wireVars, feedVars, ordVars, loop_pc, active_orders,
                update_throttle, loop_update_time, binance_price, cancelled,
                closed, loop_last, quote_started, taskVars>>

\* The orderbook stream's state but the wall clock.
ObRest ==
    <<ob_pc, bids, asks, last_update_id, last_update_time, snapshot_loaded,
      delta_buffer, chan, chan_lagged, chan_closed, price_rx, depth_rx, ready,
      srv_id, ob_last, ob_applied, ob_snapshot_id, emit_depth, emit_mid>>

\* The process has not panicked in get_fair_price.
FairAlive == \A i \in DOMAIN fp_out : ~fp_out[i].panicked

\* A caller records a sample at the current time.
FairAddSample(local_mid, reference_mid) ==
    /\ FairAlive
    /\ fair_price_calc' = add_sample(fair_price_calc, local_mid, reference_mid, now)
    /\ fp_add' = <<[now_ms |-> now, offset |-> local_mid - reference_mid]>>
    /\ fp_out' = <<>>
    /\ UNCHANGED obVars
    /\ FairFrame

\* A caller asks for the fair price at the current time.
FairGet(reference_mid) ==
    /\ FairAlive
    /\ fp_out' =
         IF FairPricePanics(fair_price_calc, now)
         THEN <<[now_ms |-> now, panicked |-> TRUE,
                 reference_mid |-> reference_mid, result |-> <<>>]>>
         ELSE <<[now_ms |-> now, panicked |-> FALSE,
                 reference_mid |-> reference_mid,
                 result |-> get_fair_price(fair_price_calc, reference_mid, now)]>>
    /\ fp_add' = <<>>
    /\ UNCHANGED <<fair_price_calc, obVars>>
    /\ FairFrame

\* Half a second passes.
FairTick ==
    /\ FairAlive
    /\ now < StartTime + MaxFairTicks * 500
    /\ now' = now + 500
    /\ fp_add' = <<>>
    /\ fp_out' = <<>>
    /\ UNCHANGED fair_price_calc
    /\ UNCHANGED ObRest
    /\ FairFrame

FairNext ==
    \/ \E l \in LocalMids, r \in ReferenceMids : FairAddSample(l, r)
    \/ \E r \in ReferenceMids : FairGet(r)
    \/ FairTick

-----------------------------------------------------------------------------
(* Account stream: apply_update, resync_orders (nord/src/account.rs) *)

\* account_id of the stream, and the id of another account.
AccountId == 7

OtherAccountId == 8

\* The keys of the places, fills and cancels maps of an update: the order ids
\* as the exchange writes them, in decimal.
OrderKeys == {"1", "2"}

\* id_str.parse::<u64>(): <<id>> for Ok(id), <<>> for Err.
ParseId(id_str) ==
    CASE id_str = "1" -> <<1>>
      [] id_str = "2" -> <<2>>
      [] OTHER -> <<>>

\* The ids the keys of a map parse to.
ParsedIds(keys) == { ParseId(k)[1] : k \in { x \in keys : ParseId(x) # <<>> } }

\* The key of a map that parses to an id.
KeyOf(keys, id) == CHOOSE k \in keys : ParseId(k) = <<id>>

TrackedOrder(order_id, side, price, size, market_id) ==
    [market_id |-> market_id, order_id |-> order_id, price |-> price,
     side |-> side, size |-> size]

AccountPlace(side, current_size, price, market_id) ==
    [current_size |-> current_size, market_id |-> market_id, price |-> price,
     side |-> side]

AccountFill(side, quantity, remaining, price, market_id) ==
    [market_id |-> market_id, price |-> price, quantity |-> quantity,
     remaining |-> remaining, side |-> side]

FillEvent(order_id, fill) ==
    [market_id |-> fill.market_id, order_id |-> order_id, price |-> fill.price,
     remaining |-> fill.remaining, side |-> fill.side, size |-> fill.quantity]

WebSocketAccountUpdate(account_id, places, fills, cancels) ==
    [account_id |-> account_id, cancels |-> cancels, fills |-> fills,
     places |-> places]

\* The empty HashMap.
NoOrders == [id \in {} |-> 0]

\* HashMap::remove of every id of a set.
RemoveIds(orders, ids) == [id \in DOMAIN orders \ ids |-> orders[id]]

\* Placements: orders.insert(order_id, TrackedOrder {..}) for every key that
\* parses.
ApplyPlaces(orders, places) ==
    LET ids == ParsedIds(DOMAIN places) IN
    [id \in DOMAIN orders \cup ids |->
        IF id \in ids
        THEN LET place == places[KeyOf(DOMAIN places, id)] IN
             TrackedOrder(id, place.side, place.price, place.current_size,
                          place.market_id)
        ELSE orders[id]]

\* Fills, the map: remove where remaining <= 0, else set the size of an order
\* that is in the map.
ApplyFills(orders, fills) ==
    LET ids == ParsedIds(DOMAIN fills)
        fill(id) == fills[KeyOf(DOMAIN fills, id)]
        gone == { id \in ids : fill(id).remaining <= 0 } IN
    [id \in DOMAIN orders \ gone |->
        IF id \in ids THEN [orders[id] EXCEPT !.size = fill(id).remaining]
        ELSE orders[id]]

\* Fills, the queue, with an event for every fill whatever its quantity.
FillEventsOfAny(fills) ==
    { FillEvent(id, fills[KeyOf(DOMAIN fills, id)]) : id \in ParsedIds(DOMAIN fills) }

\* Fills, the queue: the events fill_tx.send is called with.
FillEventsOf(fills) ==
    LET ids == { id \in ParsedIds(DOMAIN fills) :
                    fills[KeyOf(DOMAIN fills, id)].quantity > 0 } IN
    { FillEvent(id, fills[KeyOf(DOMAIN fills, id)]) : id \in ids }

\* Cancellations: orders.remove for every key that parses.
ApplyCancels(orders, cancels) == RemoveIds(orders, ParsedIds(cancels))

\* The same three passes with the cancellations first.
apply_update_cancels_first(orders, data) ==
    ApplyFills(ApplyPlaces(ApplyCancels(orders, data.cancels), data.places),
               data.fills)

\* apply_update, the map after send_modify: placements, then fills, then
\* cancellations.
apply_update(orders, data) ==
    ApplyCancels(ApplyFills(ApplyPlaces(orders, data.places), data.fills),
                 data.cancels)

\* The orders in which a HashMap of fills can be iterated: the sequences that
\* list every element of a set once.
Orderings(S) ==
    { s \in [1..Cardinality(S) -> S] :
        \A i, j \in 1..Cardinality(S) : i # j => s[i] # s[j] }

\* resync_orders and sync_initial_orders: the map collected from a list of
\* open orders.
MapOfOrders(list) ==
    [id \in { list[i].order_id : i \in DOMAIN list } |->
        LET o == list[CHOOSE i \in DOMAIN list :
                        /\ list[i].order_id = id
                        /\ \A j \in DOMAIN list : list[j].order_id = id => j <= i] IN
        TrackedOrder(o.order_id, o.side, o.price, o.size, o.market_id)]

\* resync_orders with a failed fetch emptying the map.
resync_orders_or_clear(orders, fetched) ==
    IF fetched = <<>> THEN NoOrders ELSE MapOfOrders(fetched[1])

\* resync_orders, the map afterwards: `fetched` is <<>> for Err and
\* <<account.orders>> for Ok of nord.get_account.
resync_orders(orders, fetched) ==
    IF fetched = <<>> THEN orders ELSE MapOfOrders(fetched[1])

\* The places, fills and cancels of the updates explored.
PlaceMaps ==
    LET p == AccountPlace("Bid", 2, 10, MarketId) IN
    { [k \in K |-> p] : K \in SUBSET OrderKeys }

FillValues ==
    { AccountFill("Bid", q, r, 10, MarketId) : q \in {0, 1}, r \in {0, 1} }

FillMaps ==
    UNION { [K -> FillValues] : K \in SUBSET OrderKeys }

CancelSets == SUBSET OrderKeys

AccountUpdates ==
    { WebSocketAccountUpdate(AccountId, p, f, c) :
        p \in PlaceMaps, f \in FillMaps, c \in CancelSets }

\* An update of another account.
OtherAccountUpdate ==
    WebSocketAccountUpdate(OtherAccountId,
                           [k \in {"1"} |-> AccountPlace("Bid", 2, 10, MarketId)],
                           [k \in {"2"} |-> AccountFill("Bid", 1, 0, 10, MarketId)],
                           {"2"})

\* The open orders the server reports.
OpenOrderLists ==
    { <<>>,
      <<TrackedOrder(1, "Bid", 10, 3, MarketId)>>,
      <<TrackedOrder(2, "Ask", 11, 3, MarketId),
        TrackedOrder(1, "Bid", 10, 3, OtherMarketId)>> }

\* What the account task did last.
AcctRan(kind, update, events, server) ==
    [events |-> events, kind |-> kind, server |-> server, update |-> update]

NoUpdate == WebSocketAccountUpdate(0, NoOrders, NoOrders, {})

\* AccountStream::new: watch::channel(HashMap::new()), an empty fill queue.
AcctInit ==
    /\ tracked = NoOrders
    /\ acct_last = AcctRan("none", NoUpdate, <<>>, <<>>)

-----------------------------------------------------------------------------
(* Event loop of MarketMaker::run (zo/src/mm/bot.rs) *)

\* close_threshold_usd, default 10.0
CloseThresholdUsd == 10

\* Largest |base size| the fills of a run add up to.
MaxBase == 1

\* Number of half-second clock steps of a run of the loop with the clock.
MaxQuoteTicks == 5

\* Prices of the fills: a few ticks, and a price at which one lot is worth
\* the close threshold.
FillPrices == {10, 100000}

\* Orders the exchange reports for the account on this market: none, one
\* bid, a bid and an ask, three bids, and a list too long for one atomic
\* submit.
ServerOrderLists ==
    { <<>>,
      OrdersOf(<<Quote("Bid", 10, 1)>>),
      OrdersOf(<<Quote("Bid", 10, 1), Quote("Ask", 11, 1)>>),
      OrdersOf(<<Quote("Bid", 10, 1), Quote("Bid", 10, 1), Quote("Bid", 10, 1)>>),
      OrdersOf([i \in 1..MaxCurrent |-> Quote("Bid", 10, 1)]) }

\* Quote lists the quoter hands to execute_update: at most a bid, then at most
\* an ask.
QuoteLists ==
    { <<>>,
      <<Quote("Bid", 10, 1)>>,
      <<Quote("Ask", 11, 1)>>,
      <<Quote("Bid", 10, 1), Quote("Ask", 11, 1)>>,
      <<Quote("Bid", 9, 1), Quote("Ask", 11, 1)>> }

\* PositionTracker::is_close_mode on a base size in units of 1e-4.
is_close_mode(size, fair_price) ==
    Abs(size * fair_price) >= CloseThresholdUsd * 10000

\* A MidPrice of a feed.
FeedPrice(mid, timestamp) ==
    [ask |-> mid + 1, bid |-> mid - 1, mid |-> mid, timestamp |-> timestamp]

\* (a.timestamp as i64 - b.timestamp as i64).unsigned_abs() < 1000
BothFresh(a, b) == Abs(a.timestamp - b.timestamp) < 1000

\* The history record of the handler the loop ran last.
Ran(kind, lost, price) == [kind |-> kind, lost |-> lost, price |-> price]

\* The history record of a fill handler: the FillEvent's market and price.
RanFill(market_id, price) ==
    [kind |-> "fill", lost |-> 0, market_id |-> market_id, price |-> price]

\* The markets of the account's fills: the bot's and another one.
FillMarkets == {MarketId, OtherMarketId}

\* A loop that starts a quote update whatever the time since the last one.
ThrottleElapsedAlways(t, last, throttle) == TRUE

\* last_update_time.elapsed() >= update_throttle
ThrottleElapsed(t, last, throttle) == t - last >= throttle

\* A loop that goes on to quote with whatever the estimator returned.
WarmingUpNever(fair) == FALSE

\* match get_fair_price { None => { log_warmup; continue } }
WarmingUp(fair) == fair = <<>>

\* An execute_update that goes on to update_quotes with no quote.
NoQuotesNever(quotes) == FALSE

\* execute_update line 366: quotes.is_empty()
NoQuotes(quotes) == quotes = <<>>

\* A loop that keeps its cache when update_quotes fails.
ActiveAfterUpdateKeep(ok, new_orders, old_orders) ==
    IF ok THEN new_orders ELSE old_orders

\* execute_update lines 393-399: Ok stores the returned orders, Err clears.
ActiveAfterUpdate(ok, new_orders, old_orders) ==
    IF ok THEN new_orders ELSE <<>>

\* A fill handler that cancels only when it holds more than one order.
FillMustCancelMany(size, price, orders) ==
    is_close_mode(size, price) /\ Len(orders) > 1

\* Lines 284-285: is_close_mode(fill.price) && !active_orders.is_empty()
FillMustCancel(size, price, orders) ==
    is_close_mode(size, price) /\ orders # <<>>

\* A run that returns without closing the account stream.
ClosesOnReturnPartial == <<"binance_feed", "orderbook">>

\* Lines 325-327: the close() calls run makes before it returns Ok(()).
ClosesOnReturn == <<"binance_feed", "orderbook", "account_stream">>

\* The name of the handler that ends with the return of an awaited call.
ResumeKind(pc, ok) ==
    IF pc = "update" THEN (IF ok THEN "update_ok" ELSE "update_err")
    ELSE IF pc = "fill_cancel" THEN (IF ok THEN "fill_cancel_ok" ELSE "fill_cancel_err")
    ELSE (IF ok THEN "shutdown_cancel_ok" ELSE "shutdown_cancel_err")

\* The loop's state in the runs that do not start it.
LoopIdle ==
    /\ loop_pc = "select"
    /\ active_orders = <<>>
    /\ FairIdle
    /\ update_throttle = 0
    /\ loop_update_time = StartTime
    /\ binance_price = <<>>
    /\ cancelled = FALSE
    /\ closed = <<>>
    /\ loop_last = Ran("setup", 0, 0)
    /\ quote_started = <<>>
    /\ ws_pc = "connecting"
    /\ feed_pc = "connecting"
    /\ acct_pc = "select"
    /\ possync_pc = "syncing"
    /\ AcctInit

\* run() up to the loop: active_orders is what the exchange reported, the
\* calculator is new, last_update_time is Instant::now().
LoopSetup(orders, throttle_ms, warmup_seconds, window_ms) ==
    /\ loop_pc = "select"
    /\ active_orders = orders
    /\ fair_price_calc = FairNew(warmup_seconds, window_ms)
    /\ fp_add = <<>>
    /\ fp_out = <<>>
    /\ update_throttle = throttle_ms
    /\ loop_update_time = StartTime
    /\ binance_price = <<>>
    /\ cancelled = FALSE
    /\ closed = <<>>
    /\ loop_last = Ran("setup", 0, 0)
    /\ quote_started = <<>>
    /\ ws_pc = "connecting"
    /\ feed_pc = "connecting"
    /\ acct_pc = "select"
    /\ possync_pc = "syncing"
    /\ AcctInit

\* A run with --update-throttle-ms 0 --warmup-seconds 1, entered with each
\* list of orders the exchange may report.
LoopInit == \E orders \in ServerOrderLists : LoopSetup(orders, 0, 1, 2000)

\* A run with --update-throttle-ms 1000 --warmup-seconds 2 and a window of two
\* seconds, entered with no order on the exchange.
LoopInitTimed == LoopSetup(<<>>, 1000, 2, 2000)

LoopFrame == UNCHANGED <<diffVars, sideVars, quoterVars, wireVars, feedVars>>

\* The orderbook stream's state but the price it publishes.
ObButPrice ==
    <<ob_pc, bids, asks, last_update_id, last_update_time, snapshot_loaded,
      delta_buffer, chan, chan_lagged, chan_closed, now, depth_rx, ready,
      srv_id, ob_last, ob_applied, ob_snapshot_id, emit_depth, emit_mid>>

\* The configuration and the shutdown state, which no handler changes.
LoopFixed == <<fp_add, fp_out, update_throttle, cancelled, closed, taskVars>>

\* binance_rx.changed(): the reference feed has published the price
\* (mid, timestamp). Sample if the local price is as fresh; no fair price:
\* log_warmup, continue; throttled: nothing; else execute_update with the
\* quotes the quoter returns: none, return; else call update_quotes and
\* await it.
LoopBinancePrice(mid, timestamp, quotes) ==
    LET binance_mid == FeedPrice(mid, timestamp)
        calc == IF price_rx # <<>> /\ BothFresh(binance_mid, price_rx[1])
                THEN add_sample(fair_price_calc, price_rx[1].mid, mid, now)
                ELSE fair_price_calc IN
    /\ loop_pc = "select"
    /\ binance_price' = <<binance_mid>>
    /\ fair_price_calc' = calc
    /\ IF FairPricePanics(calc, now)
       THEN /\ loop_pc' = "panicked"
            /\ loop_last' = Ran("panic", 0, 0)
            /\ UNCHANGED <<ordVars, active_orders, loop_update_time, quote_started>>
       ELSE IF WarmingUp(get_fair_price(calc, mid, now))
       THEN /\ loop_last' = Ran("warmup", 0, 0)
            /\ UNCHANGED <<ordVars, loop_pc, active_orders, loop_update_time,
                           quote_started>>
       ELSE IF ~ThrottleElapsed(now, loop_update_time, update_throttle)
       THEN /\ loop_last' = Ran("throttled", 0, 0)
            /\ UNCHANGED <<ordVars, loop_pc, active_orders, loop_update_time,
                           quote_started>>
       ELSE /\ loop_update_time' = now
            /\ quote_started' = <<now>>
            /\ UNCHANGED active_orders
            /\ IF NoQuotes(quotes)
               THEN /\ loop_last' = Ran("no_quotes", 0, 0)
                    /\ UNCHANGED <<ordVars, loop_pc>>
               ELSE /\ StartUpdateQuotes(active_orders, quotes)
                    /\ loop_pc' = "update"
                    /\ loop_last' = Ran("update", 0, 0)
    /\ UNCHANGED <<posVars, obVars, LoopFixed>>
    /\ LoopFrame

\* zo_price_rx.changed(): the orderbook stream has published the price
\* (mid, timestamp); only samples the fair price, if the reference price is
\* as fresh.
LoopZoPrice(mid, timestamp) ==
    LET zo_mid == FeedPrice(mid, timestamp) IN
    /\ loop_pc = "select"
    /\ price_rx' = <<zo_mid>>
    /\ fair_price_calc' =
         IF binance_price # <<>> /\ BothFresh(zo_mid, binance_price[1])
         THEN add_sample(fair_price_calc, mid, binance_price[1].mid, now)
         ELSE fair_price_calc
    /\ loop_last' = Ran("zo_price", 0, 0)
    /\ UNCHANGED <<loop_pc, active_orders, loop_update_time, binance_price,
                   quote_started, LoopFixed>>
    /\ UNCHANGED <<posVars, ordVars, ObButPrice>>
    /\ LoopFrame

\* fill_rx.recv(): apply the fill; entering close mode with orders cached
\* calls cancel_orders and awaits it. The FillEvent's market_id is not read.
LoopFill(side, size, price, market_id) ==
    /\ loop_pc = "select"
    /\ Abs(FillNew(base_size, side, size)) <= MaxBase
    /\ base_size' = FillNew(base_size, side, size)
    /\ loop_last' = RanFill(market_id, price)
    /\ IF FillMustCancel(base_size', price, active_orders)
       THEN /\ StartCancelOrders(active_orders)
            /\ loop_pc' = "fill_cancel"
       ELSE UNCHANGED <<ordVars, loop_pc>>
    /\ UNCHANGED <<active_orders, fair_price_calc, loop_update_time,
                   binance_price, quote_started, LoopFixed>>
    /\ UNCHANGED <<fill_pc, fill_old, fill_arg, fill_sum, fill_calls, fill_retried,
                   sync_pc, sync_server, sync_local,
                   sync_last>>
    /\ UNCHANGED obVars
    /\ LoopFrame

\* order_sync_interval.tick(): sync_orders_from_server is awaited.
LoopOrderSyncTick ==
    /\ loop_pc = "select"
    /\ loop_pc' = "order_sync"
    /\ loop_last' = Ran("sync", 0, 0)
    /\ UNCHANGED <<active_orders, fair_price_calc, loop_update_time,
                   binance_price, quote_started, LoopFixed>>
    /\ UNCHANGED <<posVars, ordVars, obVars>>
    /\ LoopFrame

\* sync_orders_from_server returned Ok(orders).
LoopOrderSyncOk(orders) ==
    /\ loop_pc = "order_sync"
    /\ active_orders' = orders
    /\ loop_pc' = "select"
    /\ loop_last' = Ran("sync_ok", 0, 0)
    /\ UNCHANGED <<fair_price_calc, loop_update_time, binance_price,
                   quote_started, LoopFixed>>
    /\ UNCHANGED <<posVars, ordVars, obVars>>
    /\ LoopFrame

\* sync_orders_from_server returned Err: logged, the cache is kept.
LoopOrderSyncErr ==
    /\ loop_pc = "order_sync"
    /\ loop_pc' = "select"
    /\ loop_last' = Ran("sync_err", 0, 0)
    /\ UNCHANGED <<active_orders, fair_price_calc, loop_update_time,
                   binance_price, quote_started, LoopFixed>>
    /\ UNCHANGED <<posVars, ordVars, obVars>>
    /\ LoopFrame

\* status_interval.tick(): log_status.
LoopStatusTick ==
    /\ loop_pc = "select"
    /\ loop_last' = Ran("status", 0, 0)
    /\ UNCHANGED <<loop_pc, active_orders, fair_price_calc, loop_update_time,
                   binance_price, quote_started, LoopFixed>>
    /\ UNCHANGED <<posVars, ordVars, obVars>>
    /\ LoopFrame

\* A signal handler of main.rs triggers the token.
LoopCancel ==
    /\ ~cancelled
    /\ cancelled' = TRUE
    /\ UNCHANGED <<loop_pc, active_orders, fair_price_calc, fp_add, fp_out,
                   update_throttle, loop_update_time, binance_price, closed,
                   loop_last, quote_started, taskVars>>
    /\ UNCHANGED <<posVars, ordVars, obVars>>
    /\ LoopFrame

\* cancel.cancelled(): break; cancel what is cached, awaiting the call; with
\* nothing cached close the streams and return Ok(()).
LoopShutdown ==
    /\ loop_pc = "select"
    /\ cancelled
    /\ loop_last' = Ran("shutdown", 0, 0)
    /\ IF active_orders # <<>>
       THEN /\ StartCancelOrders(active_orders)
            /\ loop_pc' = "shutdown_cancel"
            /\ UNCHANGED closed
       ELSE /\ loop_pc' = "done"
            /\ closed' = ClosesOnReturn
            /\ UNCHANGED ordVars
    /\ UNCHANGED <<active_orders, fair_price_calc, fp_add, fp_out, update_throttle,
                   loop_update_time, binance_price, cancelled, quote_started,
                   taskVars>>
    /\ UNCHANGED <<posVars, obVars>>
    /\ LoopFrame

\* The awaited update_quotes / cancel_orders call returned to the loop: its
\* result is used and its frame is dropped; after the shutdown cancel the
\* streams are closed and run returns Ok(()).
LoopResume ==
    /\ loop_pc \in {"update", "fill_cancel", "shutdown_cancel"}
    /\ call_pc \in {"ok", "err"}
    /\ call_pc' = "idle"
    /\ loop_pc' = IF loop_pc = "shutdown_cancel" THEN "done" ELSE "select"
    /\ closed' = IF loop_pc = "shutdown_cancel" THEN ClosesOnReturn ELSE closed
    /\ active_orders' =
         IF loop_pc = "update"
         THEN ActiveAfterUpdate(call_pc = "ok", call_result, active_orders)
         ELSE IF loop_pc = "fill_cancel" THEN <<>> ELSE active_orders
    /\ loop_last' =
         Ran(ResumeKind(loop_pc, call_pc = "ok"),
             IF loop_pc = "update" /\ call_pc = "err"
             THEN Len(call_placed) ELSE 0,
             loop_last.price)
    /\ call_kind' = "update"
    /\ call_current' = <<>>
    /\ call_quotes' = <<>>
    /\ call_diff' = [kept |-> <<>>, to_cancel |-> <<>>, to_place |-> <<>>]
    /\ call_actions' = <<>>
    /\ call_idx' = 0
    /\ call_placed' = <<>>
    /\ call_result' = <<>>
    /\ submitted' = <<>>
    /\ UNCHANGED <<in_flight, next_order_id, resting>>
    /\ UNCHANGED <<fair_price_calc, fp_add, fp_out, update_throttle, loop_update_time,
                   binance_price, cancelled, quote_started, taskVars>>
    /\ UNCHANGED <<posVars, obVars>>
    /\ LoopFrame

\* Half a second passes, whatever the loop is doing.
LoopTick ==
    /\ now < StartTime + MaxQuoteTicks * 500
    /\ now' = now + 500
    /\ UNCHANGED ObRest
    /\ UNCHANGED <<posVars, ordVars, loopVars>>
    /\ LoopFrame

\* The events of a run with the clock standing still: every price carries the
\* current time.
LoopNext ==
    \/ \E q \in QuoteLists : LoopBinancePrice(100, now, q)
    \/ LoopZoPrice(100, now)
    \/ \E side \in Sides, size \in FillSizes, price \in FillPrices,
          market_id \in FillMarkets :
         LoopFill(side, size, price, market_id)
    \/ LoopOrderSyncTick
    \/ \E orders \in ServerOrderLists : LoopOrderSyncOk(orders)
    \/ LoopOrderSyncErr
    \/ LoopStatusTick
    \/ LoopCancel
    \/ LoopShutdown
    \/ LoopResume

\* The account's open orders as the server lists them, by order id.
RECURSIVE ServerOrders(_)
ServerOrders(open_orders) ==
    IF open_orders = {} THEN <<>>
    ELSE LET first == CHOOSE o \in open_orders :
                          \A p \in open_orders : o.order_id <= p.order_id IN
         <<first>> \o ServerOrders(open_orders \ {first})

\* Order lists of an exchange that holds at most one order a side.
QuotedOrderLists ==
    { <<>>,
      OrdersOf(<<Quote("Bid", 10, 1)>>),
      OrdersOf(<<Quote("Bid", 10, 1), Quote("Ask", 11, 1)>>) }

\* A run entered with at most one order a side on the exchange.
LoopInitQuoted == \E orders \in QuotedOrderLists : LoopSetup(orders, 0, 1, 2000)

\* The events of a run whose order sync returns what the exchange holds.
LoopExchNext ==
    \/ \E q \in QuoteLists : LoopBinancePrice(100, now, q)
    \/ LoopZoPrice(100, now)
    \/ \E side \in Sides, size \in FillSizes, price \in FillPrices :
         LoopFill(side, size, price, MarketId)
    \/ LoopOrderSyncTick
    \/ LoopOrderSyncOk(ServerOrders(resting))
    \/ LoopOrderSyncErr
    \/ LoopStatusTick
    \/ LoopCancel
    \/ LoopShutdown
    \/ LoopResume

\* The events of a run with the clock: prices up to a second old, one quote
\* list, fills at a low price, an exchange with no order of the account.
LoopTimedNext ==
    \/ \E t \in {now, now - 1000} :
         LoopBinancePrice(100, t, <<Quote("Bid", 10, 1)>>)
    \/ \E t \in {now, now - 1000} : LoopZoPrice(100, t)
    \/ \E side \in Sides : LoopFill(side, 1, 10, MarketId)
    \/ LoopOrderSyncTick
    \/ LoopOrderSyncOk(<<>>)
    \/ LoopOrderSyncErr
    \/ LoopResume
    \/ LoopTick

-----------------------------------------------------------------------------
(* Quoter (zo/src/mm/quoter.rs) and the quoting context it is given        *)
(* (zo/src/mm/position.rs)                                                 *)

\* Numbers of this section: a price is an integer number of price units of
\* 0.005 (half a tick at price_decimals = 2), a size an integer number of
\* size units of 1e-5 base asset (a tenth of a lot at size_decimals = 4). A
\* Decimal price is [whole, frac]: whole price units plus frac / BpsScale of
\* one, 0 <= frac < BpsScale, so that fair * bps / 10_000 is exact.

\* tick_size = Decimal::new(1, price_decimals), in price units.
tick_size == 2

\* lot_size = Decimal::new(1, size_decimals), in size units.
lot_size == 10

\* spread_bps = 8.0, in tenths of a basis point.
spread_bps == 80

\* take_profit_bps = 0.1, in tenths of a basis point.
take_profit_bps == 1

\* order_size_usd = 3000.0, in price units.
order_size_usd == 600000

\* dec!(10000), for basis points given in tenths.
BpsScale == 100000

\* Size units times price units in one USD: 1 / (1e-5 * 0.005).
UsdUnits == 20000000

\* size_decimals of the market.
SizeDecimals == 4

\* |a * b| >= t for t > 0, without forming the product.
AbsProductAtLeast(a, b, t) ==
    Abs(a) > 0 /\ Abs(b) >= (t + Abs(a) - 1) \div Abs(a)

PositionState(size_base, is_long, closing) ==
    [is_close_mode |-> closing, is_long |-> is_long, size_base |-> size_base]

\* PositionTracker::get_state; size_usd is only logged.
get_state(size_base, fair_price) ==
    PositionState(size_base, size_base > 0,
                  AbsProductAtLeast(size_base, fair_price,
                                    CloseThresholdUsd * UsdUnits))

\* A context that allows both sides whatever the position.
allowed_sides_both(state) == {"Bid", "Ask"}

\* position.rs allowed_sides(state)
allowed_sides(state) ==
    IF state.is_close_mode
    THEN IF state.is_long THEN {"Ask"} ELSE {"Bid"}
    ELSE {"Bid", "Ask"}

QuotingContext(fair_price, state, sides) ==
    [allowed_sides |-> sides, fair_price |-> fair_price, position_state |-> state]

\* PositionTracker::get_quoting_context with the cell at size_base.
get_quoting_context(size_base, fair_price) ==
    LET state == get_state(size_base, fair_price) IN
    QuotingContext(fair_price, state, allowed_sides(state))

BBO(best_bid, best_ask) == [best_ask |-> best_ask, best_bid |-> best_bid]

\* Decimal::from_f64 of a number of whole units.
Dec(whole) == [frac |-> 0, whole |-> whole]

DecNorm(whole, frac) ==
    [frac |-> frac % BpsScale, whole |-> whole + (frac \div BpsScale)]

DecAdd(a, b) == DecNorm(a.whole + b.whole, a.frac + b.frac)

DecSub(a, b) == DecNorm(a.whole - b.whole, a.frac - b.frac)

DecLt(a, b) == a.whole < b.whole \/ (a.whole = b.whole /\ a.frac < b.frac)

DecLeq(a, b) == ~DecLt(b, a)

\* fair * bps / dec!(10000)
SpreadAmount(fair, bps) == DecNorm(0, fair.whole * bps)

\* An align_price that returns the price as it is.
align_price_none(price, mode) == price

\* Quoter::align_price: (price / tick_size).floor() or .ceil(), * tick_size.
align_price(price, mode) ==
    LET down == price.whole \div tick_size
        exact == price.frac = 0 /\ price.whole % tick_size = 0
        aligned == IF mode = "Floor" \/ exact THEN down ELSE down + 1 IN
    Dec(aligned * tick_size)

\* Quoter::align_size: (size / lot_size).floor() * lot_size.
align_size(size) == (size \div lot_size) * lot_size

\* floor(a * 10^k / b) by long division, for a >= 0, b > 0.
RECURSIVE LongDiv(_, _, _, _)
LongDiv(q, r, b, k) ==
    IF k = 0 THEN q
    ELSE LongDiv(q * 10 + ((r * 10) \div b), (r * 10) % b, b, k - 1)

\* Quoter::usd_to_size: align_size(order_size_usd / fair_price).
usd_to_size(fair_price) ==
    IF fair_price = 0 THEN 0
    ELSE LongDiv(order_size_usd \div fair_price, order_size_usd % fair_price,
                 fair_price, SizeDecimals) * lot_size

\* A size that is that of normal mode in both modes.
quote_size_normal(ctx) == usd_to_size(ctx.fair_price)

\* get_quotes, lines 72-80: the size of the quotes.
quote_size(ctx) ==
    IF ctx.position_state.is_close_mode
    THEN align_size(Abs(ctx.position_state.size_base))
    ELSE usd_to_size(ctx.fair_price)

\* get_quotes, lines 66-70: the basis points used.
bps_used(ctx) ==
    IF ctx.position_state.is_close_mode THEN take_profit_bps ELSE spread_bps

\* A bid price that is never clamped.
bid_price_unclamped(fair, spread_amount, bbo) ==
    align_price(DecSub(fair, spread_amount), "Floor")

\* get_quotes, lines 89-97: the bid price.
bid_price(fair, spread_amount, bbo) ==
    LET raw == align_price(DecSub(fair, spread_amount), "Floor") IN
    IF \E b \in {bbo[i] : i \in DOMAIN bbo} : DecLeq(Dec(b.best_ask), raw)
    THEN align_price(DecSub(Dec(bbo[1].best_ask), Dec(tick_size)), "Floor")
    ELSE raw

\* get_quotes, lines 109-117: the ask price.
ask_price(fair, spread_amount, bbo) ==
    LET raw == align_price(DecAdd(fair, spread_amount), "Ceil") IN
    IF \E b \in {bbo[i] : i \in DOMAIN bbo} : DecLeq(raw, Dec(b.best_bid))
    THEN align_price(DecAdd(Dec(bbo[1].best_bid), Dec(tick_size)), "Ceil")
    ELSE raw

\* Quoter::get_quotes(ctx, bbo); bbo is <<>> for None.
get_quotes(ctx, bbo) ==
    LET fair == Dec(ctx.fair_price)
        spread_amount == SpreadAmount(fair, bps_used(ctx))
        size == quote_size(ctx)
        bid == bid_price(fair, spread_amount, bbo)
        ask == ask_price(fair, spread_amount, bbo)
        bid_quote == IF "Bid" \in ctx.allowed_sides /\ DecLt(Dec(0), bid)
                     THEN <<Quote("Bid", bid, size)>> ELSE <<>>
        ask_quote == IF "Ask" \in ctx.allowed_sides /\ DecLt(Dec(0), ask)
                     THEN <<Quote("Ask", ask, size)>> ELSE <<>> IN
    IF size <= 0 THEN <<>> ELSE bid_quote \o ask_quote

\* Position sizes of the tracker: flat, a tenth of a lot, a lot and a half,
\* 0.0002 long and short (worth the close threshold at 50000.00), long
\* 0.1234, short 0.06.
QuoterSizes == {0, 1, 15, 20, 0 - 20, 12340, 0 - 6000}

\* Fair prices: 0.0, 49960.00, 49970.00, 50000.00, 50000.125.
QuoterFairs == {0, 9992000, 9994000, 10000000, 10000025}

\* What get_bbo returns: None, the books of the quoter's tests, a book whose
\* best ask is one tick, and a book below the fair prices.
QuoterBbos ==
    { <<>>,
      <<BBO(9990000, 9992000)>>,
      <<BBO(10008000, 10010000)>>,
      <<BBO(9990000, 9986000)>>,
      <<BBO(0, tick_size)>> }

\* Contexts built by hand as the quoter's callers may: close mode with both
\* sides allowed, close mode at a price of half a tick, close mode with a
\* position of a tenth of a lot, no side allowed.
HandContexts ==
    { QuotingContext(10000000, PositionState(12340, TRUE, TRUE), {"Bid", "Ask"}),
      QuotingContext(1, PositionState(12340, TRUE, TRUE), {"Bid", "Ask"}),
      QuotingContext(10000000, PositionState(1, TRUE, TRUE), {"Ask"}),
      QuotingContext(10000000, PositionState(0, FALSE, FALSE), {}) }

QuoterCalled(bbo, quotes) == [bbo |-> bbo, quotes |-> quotes]

\* Before any call: a context of a flat tracker at 50000.00.
QuoterIdle ==
    /\ q_ctx = get_quoting_context(0, 10000000)
    /\ q_out = <<>>

\* The contexts a call sequence can start from.
QuoterInit ==
    /\ q_ctx \in HandContexts
    /\ q_out = <<>>

QuoterFrame ==
    UNCHANGED <<posVars, diffVars, sideVars, wireVars, feedVars, ordVars, obVars,
                loopVars>>

\* execute_update, line 348: position_tracker.get_quoting_context(fair_price)
\* with the cell at size_base.
QuoterContext(size_base, fair_price) ==
    /\ q_ctx' = get_quoting_context(size_base, fair_price)
    /\ q_out' = <<>>
    /\ QuoterFrame

\* execute_update, lines 363-364: quoter.get_quotes(&ctx, bbo.as_ref()).
QuoterCall(bbo) ==
    /\ q_out = <<>>
    /\ q_out' = <<QuoterCalled(bbo, get_quotes(q_ctx, bbo))>>
    /\ UNCHANGED q_ctx
    /\ QuoterFrame

QuoterNext ==
    \/ \E s \in QuoterSizes, f \in QuoterFairs : QuoterContext(s, f)
    \/ \E b \in QuoterBbos : QuoterCall(b)

-----------------------------------------------------------------------------
(* Wire scaling: to_scaled_u64 (nord/src/utils.rs)                         *)

\* Numbers of this section: a Decimal is [exp, mant, neg], the value
\* (neg ? -1 : 1) * mant * 10^exp with mant < 10^4 (for exp < 0 the Decimal's
\* scale is -exp); u64::MAX and the largest Decimal have 20 and 29 digits,
\* more than the integers of the model hold, so a value is compared with
\* them by its number of digits and its four leading digits.

\* Digits of u64::MAX = 18446744073709551615, and its four leading digits.
U64Digits == 20

U64Lead == 1844

\* Digits of Decimal::MAX = 79228162514264337593543950335, and its four
\* leading digits.
DecimalDigits == 29

DecimalLead == 7922

\* The largest decimals for which 10u64.pow(decimals) fits in a u64.
MaxPow10 == 19

Decimal(neg, mant, exp) == [exp |-> exp, mant |-> mant, neg |-> neg]

RECURSIVE Pow10(_)
Pow10(n) == IF n = 0 THEN 1 ELSE 10 * Pow10(n - 1)

\* Number of decimal digits of m, 1 <= m < 10^4.
Digits(m) == IF m < 10 THEN 1 ELSE IF m < 100 THEN 2 ELSE IF m < 1000 THEN 3 ELSE 4

\* m * 10^e > limit, for a limit of the given digits and leading digits that
\* is no multiple of 10^(digits - 4).
Exceeds(m, e, digits, lead) ==
    /\ m > 0
    /\ \/ Digits(m) + e > digits
       \/ Digits(m) + e = digits /\ m * Pow10(4 - Digits(m)) > lead

Scaled(kind, mant, exp) == [exp |-> exp, kind |-> kind, mant |-> mant]

\* Decimal::to_u64 of the non-negative mant * 10^e that fits: the integer
\* part, the fraction dropped.
to_u64(mant, e) ==
    IF mant = 0 THEN Scaled("ok", 0, 0)
    ELSE IF e >= 0 THEN Scaled("ok", mant, e)
    ELSE Scaled("ok", mant \div Pow10(0 - e), 0)

\* to_scaled_u64(x, decimals): the outcomes the builds can produce. With
\* decimals > 19, 10u64.pow overflows: a panic with overflow checks, a
\* wrapped scale without. x * scale panics when the product is no Decimal.
to_scaled_u64(x, decimals) ==
    LET e == x.exp + decimals IN
    IF decimals > MaxPow10
    THEN { Scaled("panic", 0, 0), Scaled("wrapped", 0, 0) }
    ELSE IF e >= 0 /\ Exceeds(x.mant, e, DecimalDigits, DecimalLead)
    THEN { Scaled("panic", 0, 0) }
    ELSE IF x.neg
    THEN { Scaled("overflow", 0, 0) }
    ELSE IF e >= 0 /\ Exceeds(x.mant, e, U64Digits, U64Lead)
    THEN { Scaled("overflow", 0, 0) }
    ELSE { to_u64(x.mant, e) }

\* Decimals given to to_scaled_u64: 0.0, 1.5, 0.001, 100, 42, 1.557, 1.23,
\* 2e19, 1e19, 8e20, each of either sign but 0.
WireDecimals ==
    { Decimal(FALSE, 0, 0) }
      \cup { Decimal(n, m[1], m[2]) :
                n \in BOOLEAN,
                m \in { <<15, 0 - 1>>, <<1, 0 - 3>>, <<100, 0>>, <<42, 0>>,
                        <<1557, 0 - 3>>, <<123, 0 - 2>>, <<2, 19>>, <<1, 19>>,
                        <<8, 20>> } }

\* price_decimals, size_decimals and token decimals of the callers, and one
\* beyond what 10u64.pow can hold.
WireScales == {0, 2, 6, 8, MaxPow10 + 1}

WireIdle ==
    /\ w_x = Decimal(FALSE, 0, 0)
    /\ w_decimals = 0
    /\ w_out = <<>>

WireInit ==
    /\ w_x \in WireDecimals
    /\ w_decimals \in WireScales
    /\ w_out = <<>>

WireFrame ==
    UNCHANGED <<posVars, diffVars, sideVars, quoterVars, feedVars, ordVars, obVars,
                loopVars>>

\* A caller picks the next value to convert.
WireArgs(x, decimals) ==
    /\ w_out # <<>>
    /\ w_x' = x
    /\ w_decimals' = decimals
    /\ w_out' = <<>>
    /\ WireFrame

\* to_scaled_u64(x, decimals) returns or panics.
WireCall ==
    /\ w_out = <<>>
    /\ \E r \in to_scaled_u64(w_x, w_decimals) : w_out' = <<r>>
    /\ UNCHANGED <<w_x, w_decimals>>
    /\ WireFrame

WireNext ==
    \/ \E x \in WireDecimals, d \in WireScales : WireArgs(x, d)
    \/ WireCall

-----------------------------------------------------------------------------
(* The long-lived tasks run spawns: NordWebSocketClient::connect            *)
(* (nord/src/ws/mod.rs), BinancePriceFeed::connect (zo/src/feed.rs),        *)
(* run_account_task (nord/src/account.rs), PositionTracker::start_sync      *)
(* (zo/src/mm/position.rs), and OrderbookStream::close                      *)

\* run has called close() on the named stream.
Closed(name) == \E i \in DOMAIN closed : closed[i] = name

\* run has returned: its locals are dropped, the WebSocket client with its
\* shutdown_tx among them, which completes the task's shutdown_rx.
WsShutdownFires == loop_pc = "done"

TaskFrame ==
    UNCHANGED <<posVars, diffVars, sideVars, quoterVars, wireVars, feedVars, ordVars, loop_pc, active_orders,
                fair_price_calc, fp_add, fp_out, update_throttle, loop_update_time,
                binance_price, cancelled, closed, loop_last, quote_started>>

\* run_connection, connect_async: the connection is up, the select loop runs.
WsConnectOk ==
    /\ ws_pc = "connecting"
    /\ ws_pc' = "connected"
    /\ UNCHANGED <<feed_pc, acct_pc, possync_pc, obVars, acctVars>>
    /\ TaskFrame

\* connect_async failed: `?` returns Err, the task logs and sleeps 3 s.
WsConnectErr ==
    /\ ws_pc = "connecting"
    /\ ws_pc' = "sleeping"
    /\ UNCHANGED <<feed_pc, acct_pc, possync_pc, obVars, acctVars>>
    /\ TaskFrame

\* The connection ended with an error (pong timeout, read error, close):
\* the task logs and sleeps 3 s.
WsConnectionErr ==
    /\ ws_pc = "connected"
    /\ ws_pc' = "sleeping"
    /\ UNCHANGED <<feed_pc, acct_pc, possync_pc, obVars, acctVars>>
    /\ TaskFrame

\* tokio::time::sleep(3 s) is over: the loop calls run_connection again.
WsSleepDone ==
    /\ ws_pc = "sleeping"
    /\ ws_pc' = "connecting"
    /\ UNCHANGED <<feed_pc, acct_pc, possync_pc, obVars, acctVars>>
    /\ TaskFrame

\* select!: shutdown_rx completes; run_connection returns Ok, the task breaks.
WsShutdown ==
    /\ ws_pc = "connected"
    /\ WsShutdownFires
    /\ ws_pc' = "exited"
    /\ UNCHANGED <<feed_pc, acct_pc, possync_pc, obVars, acctVars>>
    /\ TaskFrame

\* run_price_connection, connect_async: connected.
FeedConnectOk ==
    /\ feed_pc = "connecting"
    /\ feed_pc' = "connected"
    /\ UNCHANGED <<ws_pc, acct_pc, possync_pc, obVars, acctVars>>
    /\ TaskFrame

\* run_price_connection returned Err, from connect_async or from the
\* connection: return if cancelled, else wait RECONNECT_DELAY or the token.
FeedErr ==
    /\ feed_pc \in {"connecting", "connected"}
    /\ feed_pc' = IF Closed("binance_feed") THEN "exited" ELSE "backoff"
    /\ UNCHANGED <<ws_pc, acct_pc, possync_pc, obVars, acctVars>>
    /\ TaskFrame

\* select!: time::sleep(RECONNECT_DELAY) is over.
FeedSleepDone ==
    /\ feed_pc = "backoff"
    /\ feed_pc' = "connecting"
    /\ UNCHANGED <<ws_pc, acct_pc, possync_pc, obVars, acctVars>>
    /\ TaskFrame

\* select!: cancel.cancelled(), in the connection or in the wait.
FeedCancelled ==
    /\ feed_pc \in {"connected", "backoff"}
    /\ Closed("binance_feed")
    /\ feed_pc' = "exited"
    /\ UNCHANGED <<ws_pc, acct_pc, possync_pc, obVars, acctVars>>
    /\ TaskFrame

\* account_rx.recv() returned Ok(data): an update of another account is
\* skipped, an update of this account applied; the FillEvents are sent in the
\* order in which the fills map is iterated.
AcctRecvUpdate(data) ==
    /\ acct_pc = "select"
    /\ IF data.account_id # AccountId
       THEN /\ tracked' = tracked
            /\ acct_last' = AcctRan("skipped", data, <<>>, <<>>)
       ELSE /\ tracked' = apply_update(tracked, data)
            /\ \E events \in Orderings(FillEventsOf(data.fills)) :
                   acct_last' = AcctRan("update", data, events, <<>>)
    /\ UNCHANGED <<ws_pc, feed_pc, acct_pc, possync_pc, obVars>>
    /\ TaskFrame

\* account_rx.recv() returned Lagged: resync_orders is awaited.
AcctLagged ==
    /\ acct_pc = "select"
    /\ acct_pc' = "resync"
    /\ acct_last' = AcctRan("lagged", NoUpdate, <<>>, <<>>)
    /\ UNCHANGED <<ws_pc, feed_pc, possync_pc, obVars, tracked>>
    /\ TaskFrame

\* resync_orders: nord.get_account returned, with Err or with the account.
AcctResync(fetched) ==
    /\ acct_pc = "resync"
    /\ acct_pc' = "select"
    /\ tracked' = resync_orders(tracked, fetched)
    /\ acct_last' = AcctRan("resync", NoUpdate, <<>>, fetched)
    /\ UNCHANGED <<ws_pc, feed_pc, possync_pc, obVars>>
    /\ TaskFrame

\* resync_orders returned, for an account without open orders.
AcctResyncDone == AcctResync(<<>>) \/ AcctResync(<< <<>> >>)

\* sync_initial_orders, called by the owner of the stream.
AcctSyncInitial(orders) ==
    /\ tracked' = MapOfOrders(orders)
    /\ acct_last' = AcctRan("initial", NoUpdate, <<>>, <<orders>>)
    /\ UNCHANGED <<ws_pc, feed_pc, acct_pc, possync_pc, obVars>>
    /\ TaskFrame

\* account_rx.recv() returned Closed, every sender being gone (the client
\* and its task): wait RECONNECT_DELAY_MS or the token.
AcctChanClosed ==
    /\ acct_pc = "select"
    /\ ws_pc = "exited"
    /\ loop_pc = "done"
    /\ acct_pc' = "closed_wait"
    /\ UNCHANGED <<ws_pc, feed_pc, possync_pc, obVars, acctVars>>
    /\ TaskFrame

\* The wait after Closed is over.
AcctSleepDone ==
    /\ acct_pc = "closed_wait"
    /\ acct_pc' = "select"
    /\ UNCHANGED <<ws_pc, feed_pc, possync_pc, obVars, acctVars>>
    /\ TaskFrame

\* select!: cancel.cancelled(), in the loop or in the wait.
AcctCancelled ==
    /\ acct_pc \in {"select", "closed_wait"}
    /\ Closed("account_stream")
    /\ acct_pc' = "exited"
    /\ UNCHANGED <<ws_pc, feed_pc, possync_pc, obVars, acctVars>>
    /\ TaskFrame

\* start_sync: the awaited sync_from_server returned.
TaskSyncDone ==
    /\ possync_pc = "syncing"
    /\ possync_pc' = "waiting"
    /\ UNCHANGED <<ws_pc, feed_pc, acct_pc, obVars, acctVars>>
    /\ TaskFrame

\* start_sync select!: interval.tick().
TaskSyncTick ==
    /\ possync_pc = "waiting"
    /\ possync_pc' = "syncing"
    /\ UNCHANGED <<ws_pc, feed_pc, acct_pc, obVars, acctVars>>
    /\ TaskFrame

\* start_sync select!: cancel.cancelled().
TaskSyncCancelled ==
    /\ possync_pc = "waiting"
    /\ cancelled
    /\ possync_pc' = "exited"
    /\ UNCHANGED <<ws_pc, feed_pc, acct_pc, obVars, acctVars>>
    /\ TaskFrame

\* OrderbookStream::close: shutdown is sent and the task handle aborted; the
\* task ends at the await it is suspended in.
TaskObClose ==
    /\ Closed("orderbook")
    /\ ob_pc # "exited"
    /\ ob_pc' = "exited"
    /\ UNCHANGED <<bids, asks, last_update_id, last_update_time, snapshot_loaded,
                   delta_buffer, chan, chan_lagged, chan_closed, now, price_rx,
                   depth_rx, ready, srv_id, ob_last, ob_applied, ob_snapshot_id,
                   emit_depth, emit_mid>>
    /\ UNCHANGED <<ws_pc, feed_pc, acct_pc, possync_pc, acctVars>>
    /\ TaskFrame

\* ---- The reference feed's task with its timers (zo/src/feed.rs), in seconds

\* const PING_INTERVAL: Duration = Duration::from_secs(30)
PING_INTERVAL == 30

\* const PONG_TIMEOUT: Duration = Duration::from_secs(10)
PONG_TIMEOUT == 10

\* const STALE_THRESHOLD: Duration = Duration::from_secs(60)
STALE_THRESHOLD == 60

\* const STALE_CHECK_INTERVAL: Duration = Duration::from_secs(10)
STALE_CHECK_INTERVAL == 10

\* const RECONNECT_DELAY: Duration = Duration::from_secs(3)
RECONNECT_DELAY == 3

\* The locals of run_price_connection: last_message_time.elapsed(), the time
\* to the next tick of ping_interval and of stale_interval, and to
\* pong_deadline (<<>> for None).
FeedConn(idle, ping_in, pong_in, stale_in) ==
    [idle |-> idle, ping_in |-> ping_in, pong_in |-> pong_in, stale_in |-> stale_in]

\* No connection is up.
NoConn == FeedConn(0, 0, <<>>, 0)

FeedStep(kind, waited) == [kind |-> kind, waited |-> waited]

FeedIdle ==
    /\ feed_conn = NoConn
    /\ feed_wake = 0
    /\ feed_last = FeedStep("new", 0)

FeedTimedFrame ==
    UNCHANGED <<posVars, diffVars, sideVars, quoterVars, wireVars, ordVars, obVars,
                loop_pc, active_orders, fair_price_calc, fp_add, fp_out,
                update_throttle, loop_update_time, binance_price, cancelled,
                loop_last, quote_started, ws_pc, acct_pc, possync_pc, acctVars>>

\* BinancePriceFeed::close: cancel.cancel().
FeedClose ==
    /\ ~Closed("binance_feed")
    /\ closed' = Append(closed, "binance_feed")
    /\ UNCHANGED <<feed_pc, feedVars>>
    /\ FeedTimedFrame

\* connect, lines 74-84: run_price_connection returned Err. Return if the
\* token is cancelled, else start time::sleep(RECONNECT_DELAY).
EndConnection(reason) ==
    /\ feed_pc' = IF Closed("binance_feed") THEN "exited" ELSE "backoff"
    /\ feed_wake' = IF Closed("binance_feed") THEN 0 ELSE RECONNECT_DELAY
    /\ feed_conn' = NoConn
    /\ feed_last' = FeedStep(reason, 0)
    /\ UNCHANGED closed
    /\ FeedTimedFrame

\* run_price_connection, lines 113-122: connect_async returned Ok; both
\* intervals have had their first tick, no pong is awaited.
ConnOpened ==
    /\ feed_pc = "connecting"
    /\ feed_pc' = "connected"
    /\ feed_conn' = FeedConn(0, PING_INTERVAL, <<>>, STALE_CHECK_INTERVAL)
    /\ feed_last' = FeedStep("connected", 0)
    /\ UNCHANGED <<feed_wake, closed>>
    /\ FeedTimedFrame

\* connect_async returned Err: `?`.
ConnectFailed ==
    /\ feed_pc = "connecting"
    /\ EndConnection("connect_error")

\* select!, stream.next(): a text, binary or ping message (the pong sent).
ConnMessage ==
    /\ feed_pc = "connected"
    /\ feed_conn' = [feed_conn EXCEPT !.idle = 0]
    /\ feed_last' = FeedStep("message", 0)
    /\ UNCHANGED <<feed_pc, feed_wake, closed>>
    /\ FeedTimedFrame

\* select!, stream.next(): Message::Pong.
ConnPong ==
    /\ feed_pc = "connected"
    /\ feed_conn' = [feed_conn EXCEPT !.idle = 0, !.pong_in = <<>>]
    /\ feed_last' = FeedStep("pong", 0)
    /\ UNCHANGED <<feed_pc, feed_wake, closed>>
    /\ FeedTimedFrame

\* The ways a connection ends from the peer's side: Message::Close,
\* Some(Err(e)), None, and a failed sink.send.
ConnFailures == {"close_frame", "read_error", "stream_end", "send_error"}

ConnFailed(reason) ==
    /\ feed_pc = "connected"
    /\ EndConnection(reason)

\* select!, ping_interval.tick(): the ping is sent, the pong is due.
ConnPingTick ==
    /\ feed_pc = "connected"
    /\ feed_conn.ping_in = 0
    /\ feed_conn' = [feed_conn EXCEPT !.ping_in = PING_INTERVAL,
                                      !.pong_in = <<PONG_TIMEOUT>>]
    /\ feed_last' = FeedStep("ping", 0)
    /\ UNCHANGED <<feed_pc, feed_wake, closed>>
    /\ FeedTimedFrame

\* select!, stale_interval.tick(): Err(StaleConnection) if
\* last_message_time.elapsed() > STALE_THRESHOLD.
ConnStaleTick ==
    /\ feed_pc = "connected"
    /\ feed_conn.stale_in = 0
    /\ IF feed_conn.idle > STALE_THRESHOLD
       THEN EndConnection("stale")
       ELSE /\ feed_conn' = [feed_conn EXCEPT !.stale_in = STALE_CHECK_INTERVAL]
            /\ feed_last' = FeedStep("stale_check", 0)
            /\ UNCHANGED <<feed_pc, feed_wake, closed>>
            /\ FeedTimedFrame

\* select!, pong_timeout_fut, if pong_active: Err(PongTimeout).
ConnPongTimeout ==
    /\ feed_pc = "connected"
    /\ feed_conn.pong_in = <<0>>
    /\ EndConnection("pong_timeout")

\* select!, cancel.cancelled(): Close is sent, Ok(()) returned, the task
\* returns.
ConnCancelled ==
    /\ feed_pc = "connected"
    /\ Closed("binance_feed")
    /\ feed_pc' = "exited"
    /\ feed_conn' = NoConn
    /\ feed_last' = FeedStep("shutdown", 0)
    /\ UNCHANGED <<feed_wake, closed>>
    /\ FeedTimedFrame

\* connect, select!: time::sleep(RECONNECT_DELAY) has elapsed; the loop calls
\* run_price_connection again. The branch is taken when it is polled first,
\* whatever the token's state.
BackoffDone ==
    /\ feed_pc = "backoff"
    /\ feed_wake = 0
    /\ feed_pc' = "connecting"
    /\ feed_last' = FeedStep("reconnect", feed_last.waited)
    /\ UNCHANGED <<feed_conn, feed_wake, closed>>
    /\ FeedTimedFrame

\* connect, select!: cancel.cancelled() during the sleep: return.
BackoffCancelled ==
    /\ feed_pc = "backoff"
    /\ Closed("binance_feed")
    /\ feed_pc' = "exited"
    /\ feed_wake' = 0
    /\ feed_last' = FeedStep("shutdown", feed_last.waited)
    /\ UNCHANGED <<feed_conn, closed>>
    /\ FeedTimedFrame

\* A branch of the task's select! is ready: no time passes before it runs.
FeedBranchReady ==
    \/ /\ feed_pc = "connected"
       /\ \/ feed_conn.ping_in = 0
          \/ feed_conn.stale_in = 0
          \/ feed_conn.pong_in = <<0>>
          \/ Closed("binance_feed")
    \/ /\ feed_pc = "backoff"
       /\ feed_wake = 0 \/ Closed("binance_feed")

\* One second passes for the task: its timers run down.
FeedSecond ==
    /\ feed_pc \in {"connected", "backoff"}
    /\ ~FeedBranchReady
    /\ IF feed_pc = "connected"
       THEN /\ feed_conn' =
                 FeedConn(Min(feed_conn.idle + 1, STALE_THRESHOLD + 1),
                          feed_conn.ping_in - 1,
                          IF feed_conn.pong_in = <<>> THEN <<>>
                          ELSE <<feed_conn.pong_in[1] - 1>>,
                          feed_conn.stale_in - 1)
            /\ UNCHANGED <<feed_wake, feed_last>>
       ELSE /\ feed_wake' = feed_wake - 1
            /\ feed_last' = FeedStep(feed_last.kind, feed_last.waited + 1)
            /\ UNCHANGED feed_conn
    /\ UNCHANGED <<feed_pc, closed>>
    /\ FeedTimedFrame

FeedTimedNext ==
    \/ ConnOpened \/ ConnectFailed
    \/ ConnMessage \/ ConnPong
    \/ \E reason \in ConnFailures : ConnFailed(reason)
    \/ ConnPingTick \/ ConnStaleTick \/ ConnPongTimeout
    \/ ConnCancelled
    \/ BackoffDone \/ BackoffCancelled
    \/ FeedSecond
    \/ FeedClose

\* Timers run and fire, a connection attempt returns (weak fairness); a
\* select! whose shutdown branch is ready again and again takes it (strong
\* fairness).
FeedFairness ==
    /\ WF_vars(FeedSecond)
    /\ WF_vars(ConnOpened \/ ConnectFailed)
    /\ WF_vars(ConnPingTick)
    /\ WF_vars(ConnStaleTick)
    /\ WF_vars(ConnPongTimeout)
    /\ WF_vars(BackoffDone)
    /\ SF_vars(ConnCancelled)
    /\ SF_vars(BackoffCancelled)

\* The steps a task takes on its own or with its peer.
TaskProgress ==
    \/ WsConnectOk \/ WsConnectErr \/ WsConnectionErr \/ WsSleepDone
    \/ FeedConnectOk \/ FeedErr \/ FeedSleepDone
    \/ AcctLagged \/ AcctResyncDone \/ AcctChanClosed \/ AcctSleepDone
    \/ TaskSyncDone \/ TaskSyncTick

\* The steps by which a task observes its shutdown.
TaskStop ==
    \/ WsShutdown \/ FeedCancelled \/ AcctCancelled \/ TaskSyncCancelled
    \/ TaskObClose

\* The shutdown path of run.
RunStopNext == LoopCancel \/ LoopShutdown \/ LoopResume

\* The account stream fed updates, lag signals and fetch results.
AcctNext ==
    \/ \E data \in AccountUpdates \cup {OtherAccountUpdate} : AcctRecvUpdate(data)
    \/ AcctLagged
    \/ \E orders \in OpenOrderLists : AcctResync(<<orders>>)
    \/ AcctResync(<<>>)
    \/ \E orders \in OpenOrderLists : AcctSyncInitial(orders)

\* Timers fire and awaited network calls return (weak fairness); a select!
\* whose shutdown branch is ready again and again takes it (strong fairness).
\* Whether a connection attempt succeeds is up to the network.
TaskFairness ==
    /\ WF_vars(WsConnectOk \/ WsConnectErr)
    /\ WF_vars(WsSleepDone)
    /\ WF_vars(FeedConnectOk \/ FeedErr)
    /\ WF_vars(FeedSleepDone)
    /\ WF_vars(AcctResyncDone)
    /\ WF_vars(AcctSleepDone)
    /\ WF_vars(TaskSyncDone)
    /\ SF_vars(WsShutdown)
    /\ SF_vars(FeedCancelled)
    /\ SF_vars(AcctCancelled)
    /\ SF_vars(TaskSyncCancelled)
    /\ WF_vars(TaskObClose)
    /\ WF_vars(LoopShutdown)
    /\ WF_vars(ExecNext)
    /\ WF_vars(LoopResume)

-----------------------------------------------------------------------------
(* Orderbook side and orderbook stream (nord/src/orderbook.rs) *)

\* const STALE_THRESHOLD_MS: u64 = 60_000
STALE_THRESHOLD_MS == 60000

\* const STALE_CHECK_INTERVAL_MS: u64 = 10_000
STALE_CHECK_INTERVAL_MS == 10000

\* const MAX_LEVELS: usize = 100
MAX_LEVELS == 100

\* Capacity of the delta broadcast channel as explored (256 in ws/mod.rs).
ChanCap == 2

\* Largest update_id the exchange sends.
MaxUpdateId == 3

\* Number of stale-check ticks explored.
MaxTicks == 8


\* The symbol the stream was created for, and another market's.
Symbol == "BTC-PERP"

OtherSymbol == "ETH-PERP"

Entry(price, size) == [price |-> price, size |-> size]

Delta(id, sym, bidEntries, askEntries) ==
    [asks |-> askEntries, bids |-> bidEntries, market_symbol |-> sym,
     update_id |-> id]

\* What a delta can carry: a new bid below the asks with the ask removed, the
\* bid removed with a new ask, a bid at the ask's price, two bids below an
\* ask.
DeltaPayloads ==
    { [asks |-> <<Entry(4, 0)>>, bids |-> <<Entry(2, 1)>>],
      [asks |-> <<Entry(4, 1)>>, bids |-> <<Entry(2, 0)>>],
      [asks |-> <<>>, bids |-> <<Entry(4, 1)>>],
      [asks |-> <<Entry(4, 1)>>, bids |-> <<Entry(2, 1), Entry(1, 1)>>] }

\* What the other market's deltas carry.
OtherPayloads == { [asks |-> <<>>, bids |-> <<Entry(4, 1)>>] }

\* Books the REST snapshot can return, as its bid and ask entry lists.
SnapshotBooks ==
    { [asks |-> <<>>, bids |-> <<>>],
      [asks |-> <<Entry(4, 1)>>, bids |-> <<Entry(2, 1)>>],
      [asks |-> <<Entry(4, 1)>>, bids |-> <<Entry(2, 0)>>] }

\* self.levels.remove(&key)
SideRemove(levels, price) == { l \in levels : l.price # price }

\* self.levels.insert(key, size)
SideInsert(levels, price, size) ==
    SideRemove(levels, price) \cup { Entry(price, size) }

MaxPrice(levels) == CHOOSE p \in { l.price : l \in levels } :
                        \A l \in levels : l.price <= p

MinPrice(levels) == CHOOSE p \in { l.price : l \in levels } :
                        \A l \in levels : l.price >= p

\* A trim that drops the best price while over MAX_LEVELS.
RECURSIVE trim_from_best(_, _)
trim_from_best(levels, is_ask) ==
    IF Cardinality(levels) > MAX_LEVELS
    THEN trim_from_best(SideRemove(levels, IF is_ask THEN MinPrice(levels)
                                                     ELSE MaxPrice(levels)), is_ask)
    ELSE levels

\* OrderbookSide::trim: drop the worst price while over MAX_LEVELS.
RECURSIVE trim(_, _)
trim(levels, is_ask) ==
    IF Cardinality(levels) > MAX_LEVELS
    THEN trim(SideRemove(levels, IF is_ask THEN MaxPrice(levels)
                                           ELSE MinPrice(levels)), is_ask)
    ELSE levels

\* The loop of apply_deltas over entries[i..]: `remove` for a size of 0,
\* `insert` for any other. For each price the last of its entries decides; a
\* price without an entry keeps its level.
ApplyEntries(levels, entries, i) ==
    LET idx == i..Len(entries)
        touched == { entries[k].price : k \in idx }
        deciding == { k \in idx : \A j \in idx :
                                     entries[j].price = entries[k].price => j <= k } IN
    { l \in levels : l.price \notin touched }
        \cup { Entry(entries[k].price, entries[k].size) :
                  k \in { d \in deciding : entries[d].size # 0 } }

\* OrderbookSide::apply_deltas
apply_deltas(levels, entries, is_ask) == trim(ApplyEntries(levels, entries, 1), is_ask)

\* The loop of set_snapshot over entries[i..]: `insert` for a size > 0,
\* nothing for any other. For each price the last of its entries with a size
\* > 0 decides.
InsertPositive(levels, entries, i) ==
    LET idx == { k \in i..Len(entries) : entries[k].size > 0 }
        touched == { entries[k].price : k \in idx }
        deciding == { k \in idx : \A j \in idx :
                                     entries[j].price = entries[k].price => j <= k } IN
    { l \in levels : l.price \notin touched }
        \cup { Entry(entries[k].price, entries[k].size) : k \in deciding }

\* OrderbookSide::set_snapshot
set_snapshot(entries, is_ask) == trim(InsertPositive({}, entries, 1), is_ask)

\* OrderbookSide::get_best: <<>> for None.
get_best(levels, is_ask) ==
    IF levels = {} THEN <<>>
    ELSE IF is_ask THEN <<MinPrice(levels)>> ELSE <<MaxPrice(levels)>>

\* ---- One OrderbookSide on its own, called with bounded entry lists.

\* Number of apply_deltas calls explored after a snapshot.
MaxSideDeltas == 2

\* The entries of the consecutive prices lo..hi, each of one size.
Run(lo, hi, size) == [i \in 1..(hi - lo + 1) |-> Entry(lo + i - 1, size)]

\* The entry lists the side is called with: as many levels as the side
\* holds; two more than that; one level past them; removals at both ends; a
\* negative size; a size of 0 first, and a level set and then removed.
SideEntryLists ==
    { Run(1, MAX_LEVELS, 1),
      Run(2, MAX_LEVELS + 3, 1),
      <<Entry(MAX_LEVELS + 1, 1)>>,
      <<Entry(MAX_LEVELS + 1, 0), Entry(1, 0)>>,
      <<Entry(50, -1)>>,
      <<Entry(60, 0), Entry(61, 3), Entry(61, 0)>> }

\* OrderbookSide::new(is_ask)
SideNew(is_ask) ==
    /\ side_is_ask = is_ask
    /\ side_levels = {}
    /\ side_snapshot = <<>>
    /\ side_deltas = <<>>

\* The side of the runs that do not use it.
SideIdle == SideNew(FALSE)

SideInit == \E is_ask \in BOOLEAN : SideNew(is_ask)

SideFrame ==
    UNCHANGED <<posVars, diffVars, quoterVars, wireVars, feedVars, ordVars, obVars, loopVars>>

\* side.set_snapshot(entries)
SideSetSnapshot(entries) ==
    /\ side_levels' = set_snapshot(entries, side_is_ask)
    /\ side_snapshot' = entries
    /\ side_deltas' = <<>>
    /\ UNCHANGED side_is_ask
    /\ SideFrame

\* side.apply_deltas(entries)
SideApplyDeltas(entries) ==
    /\ Len(side_deltas) < MaxSideDeltas
    /\ side_levels' = apply_deltas(side_levels, entries, side_is_ask)
    /\ side_deltas' = Append(side_deltas, entries)
    /\ UNCHANGED <<side_is_ask, side_snapshot>>
    /\ SideFrame

SideNext ==
    \/ \E entries \in SideEntryLists : SideSetSnapshot(entries)
    \/ \E entries \in SideEntryLists : SideApplyDeltas(entries)

\* The task's steps leave the other components' state alone.
ObFrame == UNCHANGED <<posVars, diffVars, sideVars, quoterVars, wireVars, feedVars, ordVars, loopVars>>

\* OrderbookInner::new, the channels of OrderbookStream::new, and connect():
\* the task is spawned and its first fetch_snapshot is in flight.
ObInit ==
    /\ ob_pc = "fetch_init"
    /\ bids = {}
    /\ asks = {}
    /\ last_update_id = 0
    /\ last_update_time = 0
    /\ snapshot_loaded = FALSE
    /\ delta_buffer = <<>>
    /\ chan = <<>>
    /\ chan_lagged = FALSE
    /\ chan_closed = FALSE
    /\ now = StartTime
    /\ price_rx = <<>>
    /\ depth_rx = <<>>
    /\ ready = "pending"
    /\ srv_id = 0
    /\ ob_last = "new"
    /\ ob_applied = <<>>
    /\ ob_snapshot_id = 0
    /\ emit_depth = 0
    /\ emit_mid = 0

\* The inner state the handlers thread through their helper calls.
Inner(b, a, id, applied) ==
    [applied |-> applied, asks |-> a, bids |-> b, last_update_id |-> id]

Applied(update, prev, afterLag) ==
    [after_lag |-> afterLag, market_symbol |-> update.market_symbol,
     prev_id |-> prev, update_id |-> update.update_id]

\* handle_update: apply both sides, take the update's id.
handle_update(st, update, afterLag) ==
    Inner(apply_deltas(st.bids, update.bids, FALSE),
          apply_deltas(st.asks, update.asks, TRUE),
          update.update_id,
          Append(st.applied, Applied(update, st.last_update_id, afterLag)))

\* The drain's test with >= for >.
DrainAcceptsOrEqual(update_id, last_id) == update_id >= last_id

\* if update.update_id > inner.last_update_id
DrainAccepts(update_id, last_id) == update_id > last_id

\* The loops of drain_buffered_deltas over a list of updates: apply those
\* newer than last_update_id, skip the others.
RECURSIVE DrainList(_, _, _, _)
DrainList(st, updates, i, afterLag) ==
    IF i > Len(updates) THEN st
    ELSE DrainList(IF DrainAccepts(updates[i].update_id, st.last_update_id)
                   THEN handle_update(st, updates[i], afterLag)
                   ELSE st,
                   updates, i + 1, afterLag)

\* drain_buffered_deltas: try_recv until Empty or Closed; a Lagged(n) is
\* logged and the loop continues with the updates still in the channel; then
\* the in-memory delta_buffer.
drain_buffered_deltas(st, channel, lagged, buffer) ==
    DrainList(DrainList(st, channel, 1, lagged), buffer, 1, FALSE)

\* Whether emit_price sends a MidPrice: both sides have a best price.
HasBbo(b, a) == get_best(b, FALSE) # <<>> /\ get_best(a, TRUE) # <<>>

\* mid = (bid + ask) / 2.0; bid and ask are in ticks and mid is kept in half
\* ticks, so that the mean of two tick prices is exact.
MidPriceAtBid(b, a, t) ==
    LET bid == get_best(b, FALSE)[1]
        ask == get_best(a, TRUE)[1] IN
    [ask |-> ask, bid |-> bid, mid |-> 2 * bid, timestamp |-> t]

MidPrice(b, a, t) ==
    LET bid == get_best(b, FALSE)[1]
        ask == get_best(a, TRUE)[1] IN
    [ask |-> ask, bid |-> bid, mid |-> bid + ask, timestamp |-> t]

\* emit_price(inner, price_tx, depth_tx) on the book (b, a) at epoch_millis() = t.
emit_price(b, a, t) ==
    /\ price_rx' = IF HasBbo(b, a) THEN <<MidPrice(b, a, t)>> ELSE price_rx
    /\ depth_rx' = <<[asks |-> a, bids |-> b]>>
    /\ emit_mid' = IF HasBbo(b, a) THEN 1 ELSE 0
    /\ emit_depth' = 1

NoEmit ==
    /\ UNCHANGED <<price_rx, depth_rx>>
    /\ emit_mid' = 0
    /\ emit_depth' = 0

\* OrderbookStream::get_mid_price: what the watch channel holds.
get_mid_price == price_rx

\* OrderbookStream::get_bbo
get_bbo ==
    IF get_mid_price = <<>> THEN <<>>
    ELSE <<BBO(get_mid_price[1].bid, get_mid_price[1].ask)>>

\* OrderbookInner::reset
reset ==
    /\ bids' = {}
    /\ asks' = {}
    /\ last_update_id' = 0
    /\ last_update_time' = 0
    /\ snapshot_loaded' = FALSE
    /\ delta_buffer' = <<>>

\* fetch_snapshot returned Ok(info): load it; then drain_buffered_deltas and
\* emit_price, as at every place the task fetches.
FetchedDrainEmit(book, id) ==
    LET loaded == Inner(set_snapshot(book.bids, FALSE), set_snapshot(book.asks, TRUE),
                        id, <<>>)
        st == drain_buffered_deltas(loaded, chan, chan_lagged, delta_buffer) IN
    /\ bids' = st.bids
    /\ asks' = st.asks
    /\ last_update_id' = st.last_update_id
    /\ last_update_time' = now
    /\ snapshot_loaded' = TRUE
    /\ delta_buffer' = <<>>
    /\ chan' = <<>>
    /\ chan_lagged' = FALSE
    /\ ob_applied' = st.applied
    /\ ob_snapshot_id' = id
    /\ emit_price(st.bids, st.asks, now)

\* The WebSocket client broadcasts a delta: a full channel drops its oldest
\* update and marks the receiver lagged.
ObSend(sym, payload) ==
    /\ ~chan_closed
    /\ srv_id < MaxUpdateId
    /\ srv_id' = srv_id + 1
    /\ LET update == Delta(srv_id + 1, sym, payload.bids, payload.asks) IN
       IF Len(chan) >= ChanCap
       THEN /\ chan' = Append(Tail(chan), update)
            /\ chan_lagged' = TRUE
       ELSE /\ chan' = Append(chan, update)
            /\ UNCHANGED chan_lagged
    /\ UNCHANGED <<ob_pc, bids, asks, last_update_id, last_update_time,
                   snapshot_loaded, delta_buffer, chan_closed, now, price_rx,
                   depth_rx, ready, ob_last, ob_applied, ob_snapshot_id,
                   emit_depth, emit_mid>>
    /\ ObFrame

\* The WebSocket client and its sender are dropped.
ObSenderClosed ==
    /\ ~chan_closed
    /\ chan_closed' = TRUE
    /\ UNCHANGED <<ob_pc, bids, asks, last_update_id, last_update_time,
                   snapshot_loaded, delta_buffer, chan, chan_lagged, now,
                   price_rx, depth_rx, ready, srv_id, ob_last, ob_applied,
                   ob_snapshot_id, emit_depth, emit_mid>>
    /\ ObFrame

\* Steps 1-3 of run_background_task: the initial snapshot arrived.
ObInitFetchOk(book, id) ==
    /\ ob_pc = "fetch_init"
    /\ FetchedDrainEmit(book, id)
    /\ ready' = "ok"
    /\ ob_pc' = "select"
    /\ ob_last' = "init"
    /\ UNCHANGED <<chan_closed, now, srv_id>>
    /\ ObFrame

\* The initial snapshot failed: tell the caller and return.
ObInitFetchErr ==
    /\ ob_pc = "fetch_init"
    /\ ready' = "err"
    /\ ob_pc' = "exited"
    /\ ob_last' = "init_err"
    /\ ob_applied' = <<>>
    /\ NoEmit
    /\ UNCHANGED <<bids, asks, last_update_id, last_update_time, snapshot_loaded,
                   delta_buffer, chan, chan_lagged, chan_closed, now, srv_id,
                   ob_snapshot_id>>
    /\ ObFrame

\* The staleness test of the tick branch.
IsStale(t, last) == last > 0 /\ (IF t >= last THEN t - last ELSE 0) > STALE_THRESHOLD_MS

\* select!: stale_interval.tick(), one interval after the previous tick.
ObStaleTick ==
    /\ ob_pc = "select"
    /\ now < StartTime + MaxTicks * STALE_CHECK_INTERVAL_MS
    /\ now' = now + STALE_CHECK_INTERVAL_MS
    /\ ob_applied' = <<>>
    /\ NoEmit
    /\ IF IsStale(now', last_update_time)
       THEN /\ reset
            /\ ob_pc' = "fetch_stale"
            /\ ob_last' = "stale"
       ELSE /\ UNCHANGED <<bids, asks, last_update_id, last_update_time,
                           snapshot_loaded, delta_buffer, ob_pc>>
            /\ ob_last' = "tick"
    /\ UNCHANGED <<chan, chan_lagged, chan_closed, ready, srv_id, ob_snapshot_id>>
    /\ ObFrame

\* The main loop's test with the symbol filter alone.
LoopAcceptsAnyId(update, last_id) == update.market_symbol = Symbol

\* Lines 463-471: the update is for this symbol and newer than last_update_id.
LoopAccepts(update, last_id) ==
    update.market_symbol = Symbol /\ ~(update.update_id <= last_id)

\* select!: delta_rx.recv() returned Ok(update).
ObRecvDelta ==
    /\ ob_pc = "select"
    /\ ~chan_lagged
    /\ chan # <<>>
    /\ chan' = Tail(chan)
    /\ last_update_time' = now
    /\ LET update == Head(chan) IN
       IF ~snapshot_loaded
       THEN /\ delta_buffer' = Append(delta_buffer, update)
            /\ ob_last' = "buffered"
            /\ ob_applied' = <<>>
            /\ NoEmit
            /\ UNCHANGED <<bids, asks, last_update_id>>
       ELSE IF ~LoopAccepts(update, last_update_id)
       THEN /\ ob_last' = IF update.market_symbol # Symbol
                         THEN "other_symbol" ELSE "old_delta"
            /\ ob_applied' = <<>>
            /\ NoEmit
            /\ UNCHANGED <<bids, asks, last_update_id, delta_buffer>>
       ELSE LET st == handle_update(Inner(bids, asks, last_update_id, <<>>),
                                    update, FALSE) IN
            /\ bids' = st.bids
            /\ asks' = st.asks
            /\ last_update_id' = st.last_update_id
            /\ ob_applied' = st.applied
            /\ ob_last' = "delta"
            /\ emit_price(st.bids, st.asks, now)
            /\ UNCHANGED delta_buffer
    /\ UNCHANGED <<ob_pc, snapshot_loaded, chan_lagged, chan_closed, now, ready,
                   srv_id, ob_snapshot_id>>
    /\ ObFrame

\* select!: delta_rx.recv() returned Err(Lagged(n)): reset and start the
\* snapshot fetch.
ObRecvLagged ==
    /\ ob_pc = "select"
    /\ chan_lagged
    /\ chan_lagged' = FALSE
    /\ reset
    /\ ob_pc' = "fetch_lag"
    /\ ob_last' = "lagged"
    /\ ob_applied' = <<>>
    /\ NoEmit
    /\ UNCHANGED <<chan, chan_closed, now, ready, srv_id, ob_snapshot_id>>
    /\ ObFrame

\* select!: delta_rx.recv() returned Err(Closed): leave the loop.
ObRecvClosed ==
    /\ ob_pc = "select"
    /\ ~chan_lagged
    /\ chan = <<>>
    /\ chan_closed
    /\ ob_pc' = "exited"
    /\ ob_last' = "closed"
    /\ ob_applied' = <<>>
    /\ NoEmit
    /\ UNCHANGED <<bids, asks, last_update_id, last_update_time, snapshot_loaded,
                   delta_buffer, chan, chan_lagged, chan_closed, now, ready,
                   srv_id, ob_snapshot_id>>
    /\ ObFrame

\* The re-fetch started by the stale or the lag branch returned Ok.
ObRefetchOk(book, id) ==
    /\ ob_pc \in {"fetch_stale", "fetch_lag"}
    /\ FetchedDrainEmit(book, id)
    /\ ob_last' = IF ob_pc = "fetch_lag" THEN "lag_resync" ELSE "stale_resync"
    /\ ob_pc' = "select"
    /\ UNCHANGED <<chan_closed, now, ready, srv_id>>
    /\ ObFrame

\* The re-fetch returned Err: log, `continue` to the next select.
ObRefetchErr ==
    /\ ob_pc \in {"fetch_stale", "fetch_lag"}
    /\ ob_pc' = "select"
    /\ ob_last' = "refetch_err"
    /\ ob_applied' = <<>>
    /\ NoEmit
    /\ UNCHANGED <<bids, asks, last_update_id, last_update_time, snapshot_loaded,
                   delta_buffer, chan, chan_lagged, chan_closed, now, ready,
                   srv_id, ob_snapshot_id>>
    /\ ObFrame

\* select!: shutdown_rx fired (OrderbookStream::close), leave the loop.
ObShutdown ==
    /\ ob_pc = "select"
    /\ ob_pc' = "exited"
    /\ ob_last' = "shutdown"
    /\ ob_applied' = <<>>
    /\ NoEmit
    /\ UNCHANGED <<bids, asks, last_update_id, last_update_time, snapshot_loaded,
                   delta_buffer, chan, chan_lagged, chan_closed, now, ready,
                   srv_id, ob_snapshot_id>>
    /\ ObFrame

SnapshotIds == 0..MaxUpdateId

ObEnvNext ==
    \/ \E p \in DeltaPayloads : ObSend(Symbol, p)
    \/ \E p \in OtherPayloads : ObSend(OtherSymbol, p)
    \/ ObSenderClosed

ObTaskNext ==
    \/ \E b \in SnapshotBooks, id \in SnapshotIds : ObInitFetchOk(b, id)
    \/ ObInitFetchErr
    \/ ObRecvDelta
    \/ ObRecvLagged
    \/ ObRecvClosed
    \/ \E b \in SnapshotBooks, id \in SnapshotIds : ObRefetchOk(b, id)
    \/ ObRefetchErr
    \/ ObShutdown

\* The delta and the snapshot book of the runs with a ticking clock.
StalePayload == [asks |-> <<Entry(4, 1)>>, bids |-> <<Entry(2, 1)>>]

StaleBook == [asks |-> <<Entry(4, 1)>>, bids |-> <<Entry(2, 1)>>]

StaleEnvNext ==
    \/ ObSend(Symbol, StalePayload)
    \/ ObSend(OtherSymbol, StalePayload)

StaleTaskNext ==
    \/ \E id \in SnapshotIds : ObInitFetchOk(StaleBook, id)
    \/ ObInitFetchErr
    \/ ObStaleTick
    \/ ObRecvDelta
    \/ ObRecvLagged
    \/ \E id \in SnapshotIds : ObRefetchOk(StaleBook, id)
    \/ ObRefetchErr

-----------------------------------------------------------------------------
(* Claims on the order reconciler *)

Ids(orders) == { orders[i].order_id : i \in DOMAIN orders }

RangeOf(seq) == { seq[i] : i \in DOMAIN seq }

\* The elements of seq at the indices in S, in index order.
RECURSIVE PickFrom(_, _, _)
PickFrom(seq, S, i) ==
    IF i > Len(seq) THEN <<>>
    ELSE IF i \in S THEN <<seq[i]>> \o PickFrom(seq, S, i + 1)
    ELSE PickFrom(seq, S, i + 1)

SameQuote(order, quote) ==
    order.side = quote.side /\ order.price = quote.price /\ order.size = quote.size

\* kept and to_cancel split the current orders; to_cancel is in input order.
DiffSplitsCurrent(current, r) ==
    /\ Ids(r.kept) \cap Ids(r.to_cancel) = {}
    /\ Ids(r.kept) \cup Ids(r.to_cancel) = Ids(current)
    /\ Len(r.kept) + Len(r.to_cancel) = Len(current)
    /\ RangeOf(r.kept) \subseteq RangeOf(current)
    /\ r.to_cancel = SelectSeq(current, LAMBDA o : o.order_id \notin Ids(r.kept))

\* The desired quotes split into those matched, each by its own kept order of
\* the same side, price and size, and those placed, in input order.
DiffCoversQuotes(quotes, r) ==
    \E P \in SUBSET (1..Len(quotes)) :
        LET matched == PickFrom(quotes, (1..Len(quotes)) \ P, 1) IN
        /\ r.to_place = PickFrom(quotes, P, 1)
        /\ Len(r.kept) = Len(matched)
        /\ \A k \in 1..Len(matched) : SameQuote(r.kept[k], matched[k])
        /\ Cardinality(Ids(r.kept)) = Len(r.kept)

\* The shape of scenario S6: a bid at another price and an unchanged ask.
IsS6 ==
    /\ d_current = OrdersOf(<<Quote("Bid", 9, 1), Quote("Ask", 10, 1)>>)
    /\ d_quotes = <<Quote("Bid", 10, 1), Quote("Ask", 10, 1)>>

\* C9: diff_orders returns (kept, cancel, place) with kept and cancel disjoint
\* and together exactly the current orders, every desired quote either matched
\* to one kept order of the same side, price and size (no order matched twice)
\* or once in place, cancel and place in input order; S6 gives one of each.
C9_DiffPartition ==
    d_result # <<>> =>
        /\ DiffSplitsCurrent(d_current, d_result[1])
        /\ DiffCoversQuotes(d_quotes, d_result[1])
        /\ IsS6 => /\ Len(d_result[1].kept) = 1
                   /\ Len(d_result[1].to_cancel) = 1
                   /\ Len(d_result[1].to_place) = 1

\* C9 witness: the diff was computed for two equal desired quotes against two
\* current orders that both match them and a third that does not.
C9_Witness ==
    /\ d_result # <<>>
    /\ Len(d_quotes) = 2 /\ d_quotes[1] = d_quotes[2]
    /\ Len(d_result[1].kept) = 2
    /\ Len(d_result[1].to_cancel) = 1

\* The action list of the call in progress, as the claim describes it.
ClaimedActions ==
    IF call_kind = "update"
    THEN [i \in 1..Len(call_diff.to_cancel) |->
            [kind |-> "Cancel", order_id |-> call_diff.to_cancel[i].order_id]]
         \o [i \in 1..Len(call_diff.to_place) |->
            [fill_mode |-> "PostOnly", is_reduce_only |-> FALSE, kind |-> "Place",
             market_id |-> MarketId, price |-> call_diff.to_place[i].price,
             side |-> call_diff.to_place[i].side,
             size |-> call_diff.to_place[i].size]]
    ELSE [i \in 1..Len(call_current) |->
            [kind |-> "Cancel", order_id |-> call_current[i].order_id]]

RECURSIVE Flatten(_)
Flatten(chunks) ==
    IF chunks = <<>> THEN <<>> ELSE Head(chunks) \o Flatten(Tail(chunks))

\* C10: update_quotes and cancel_orders submit their action list, all cancels
\* before all places, in consecutive chunks of 1 to MAX_ATOMIC_ACTIONS
\* subactions, in list order, each awaited before the next is sent, and submit
\* nothing for an empty action list.
C10_ChunkedSubmit ==
    LET sent == Flatten(submitted) IN
    /\ \A i, j \in 1..Len(sent) :
         (i < j) => ~(sent[i].kind = "Place" /\ sent[j].kind = "Cancel")
    /\ \A k \in 1..Len(submitted) :
         /\ Len(submitted[k]) >= 1
         /\ Len(submitted[k]) <= 4
         /\ (k < Len(submitted)) => Len(submitted[k]) = 4
    /\ Len(sent) <= Len(ClaimedActions)
    /\ sent = SubSeq(ClaimedActions, 1, Len(sent))
    /\ in_flight <= 1
    /\ (call_pc = "send") => in_flight = 0
    /\ (call_pc = "ok") => sent = ClaimedActions
    /\ (ClaimedActions = <<>>) => submitted = <<>>

\* C10 witness: an update with five subactions, cancels and places, went out
\* in two chunks and returned.
C10_Witness ==
    /\ call_pc = "ok"
    /\ call_kind = "update"
    /\ Len(submitted) = 2
    /\ Len(call_diff.to_place) > 0
    /\ Len(call_diff.to_cancel) > 0

\* Every order of `orders` is the order of its own quote of `quotes`, with the
\* same side, price and size, and every quote has its order.
AllMatched(orders, quotes) ==
    /\ Len(orders) = Len(quotes)
    /\ \E f \in [1..Len(orders) -> 1..Len(quotes)] :
         /\ \A i, j \in 1..Len(orders) : (i # j) => f[i] # f[j]
         /\ \A i \in 1..Len(orders) : SameQuote(orders[i], quotes[f[i]])

\* C19: when every desired quote matches its own current order and no current
\* order is left over, update_quotes submits nothing and returns the current
\* orders unchanged; after an update in which every place was posted, the
\* returned orders are such a match of the same quotes, so repeating the update
\* finds nothing to cancel and nothing to place.
C19_NoChangeNoSubmit ==
    /\ (call_kind = "update" /\ call_pc # "idle"
            /\ AllMatched(call_current, call_quotes)) =>
          /\ submitted = <<>>
          /\ in_flight = 0
          /\ call_pc = "ok"
          /\ call_result = call_current
    /\ (call_kind = "update" /\ call_pc = "ok"
            /\ Len(call_placed) = Len(call_diff.to_place)) =>
          /\ AllMatched(call_result, call_quotes)
          /\ diff_orders(call_result, call_quotes).to_cancel = <<>>
          /\ diff_orders(call_result, call_quotes).to_place = <<>>

\* C19 witness: an update whose two quotes are matched by the two current
\* orders, listed in the other order, has returned.
C19_Witness ==
    /\ call_kind = "update"
    /\ call_pc = "ok"
    /\ Len(call_quotes) = 2
    /\ call_quotes[1] # call_quotes[2]
    /\ AllMatched(call_current, call_quotes)
    /\ ~SameQuote(call_current[1], call_quotes[1])

\* C18: every Place subaction handed to the exchange has fill_mode PostOnly and
\* is_reduce_only false, whether the position is in close mode or not.
C18_PlacesArePostOnly ==
    \A k \in 1..Len(submitted) : \A i \in 1..Len(submitted[k]) :
        (submitted[k][i].kind = "Place") =>
            /\ submitted[k][i].fill_mode = "PostOnly"
            /\ submitted[k][i].is_reduce_only = FALSE

\* C18 witness: a Place is in flight while the bot holds a position.
C18_Witness ==
    /\ in_flight = 1
    /\ \E k \in 1..Len(submitted) : \E i \in 1..Len(submitted[k]) :
          submitted[k][i].kind = "Place"
    /\ base_size # 0

-----------------------------------------------------------------------------
(* Specifications *)

\* Every component as it is constructed, no reconciler input chosen and the
\* event loop not started.
Init == PosInit /\ DiffIdle /\ OrdInit /\ ObInit /\ LoopIdle /\ SideIdle /\ QuoterIdle /\ WireIdle /\ RestingIdle /\ FeedIdle

\* The same with the arguments of a diff_orders call chosen.
InitDiff == PosInit /\ DiffInit /\ OrdInit /\ ObInit /\ LoopIdle /\ SideIdle /\ QuoterIdle /\ WireIdle /\ RestingIdle /\ FeedIdle

\* The same with the event loop entered with the orders the exchange reported.
InitLoop == PosInit /\ DiffIdle /\ OrdInit /\ ObInit /\ LoopInit /\ SideIdle /\ QuoterIdle /\ WireIdle /\ RestingIdle /\ FeedIdle

\* The same with the event loop entered with the clock running.
InitQuote == PosInit /\ DiffIdle /\ OrdInit /\ ObInit /\ LoopInitTimed /\ SideIdle /\ QuoterIdle /\ WireIdle /\ RestingIdle /\ FeedIdle

\* The same with a calculator of each configuration.
InitFair ==
    /\ PosInit
    /\ DiffIdle
    /\ OrdInit
    /\ ObInit
    /\ \E m \in 0..MaxMinSamples, w \in FairWindows : LoopSetup(<<>>, 0, m, w)
    /\ SideIdle /\ QuoterIdle /\ WireIdle /\ RestingIdle /\ FeedIdle

\* Every component as constructed, with a side of either kind.
InitSide == PosInit /\ DiffIdle /\ OrdInit /\ ObInit /\ LoopIdle /\ SideInit
            /\ QuoterIdle /\ WireIdle /\ RestingIdle /\ FeedIdle

\* The tasks of a run and its shutdown path, with the fairness their
\* scheduling gives.
SpecTasks ==
    /\ InitLoop
    /\ [][TaskProgress \/ TaskStop \/ RunStopNext \/ ExecNext]_vars
    /\ TaskFairness

\* One orderbook side under set_snapshot and apply_deltas calls.
SpecSide ==
    /\ InitSide
    /\ [][SideNext]_vars

\* The account stream's task on its own.
SpecAcct ==
    /\ Init
    /\ [][AcctNext]_vars

\* The event loop with the clock: warm-up, sampling and the throttle.
SpecQuote ==
    /\ InitQuote
    /\ [][LoopTimedNext \/ ExecNext]_vars

\* Callers of one FairPriceCalculator as time passes.
SpecFair ==
    /\ InitFair
    /\ [][FairNext]_vars

\* apply_fill callers alone: no reconciliation task is running.
SpecFill ==
    /\ Init
    /\ [][FillNext]_vars

\* apply_fill callers and the reconciliation task of start_sync.
SpecPos ==
    /\ Init
    /\ [][FillNext \/ SyncNext]_vars

\* Every component as constructed, with a quoting context built by hand.
InitQuoter ==
    PosInit /\ DiffIdle /\ OrdInit /\ ObInit /\ LoopIdle /\ SideIdle
            /\ QuoterInit /\ WireIdle /\ RestingIdle /\ FeedIdle

\* get_quoting_context and get_quotes on bounded inputs.
SpecQuoter ==
    /\ InitQuoter
    /\ [][QuoterNext]_vars

\* Every component as constructed, with the arguments of a conversion.
InitWire ==
    PosInit /\ DiffIdle /\ OrdInit /\ ObInit /\ LoopIdle /\ SideIdle
            /\ QuoterIdle /\ WireInit /\ RestingIdle /\ FeedIdle

\* to_scaled_u64 on bounded inputs.
SpecWire ==
    /\ InitWire
    /\ [][WireNext]_vars

\* The reconciliation task of start_sync next to the event loop's fills.
SpecSync ==
    /\ Init
    /\ [][SyncNext \/ LoopFillNext]_vars

\* diff_orders on every pair of bounded input lists.
SpecDiff ==
    /\ InitDiff
    /\ [][DiffNext]_vars

\* update_quotes and cancel_orders called with bounded arguments, against an
\* exchange that answers each atomic submission with a receipt or an error.
SpecOrders ==
    /\ Init
    /\ [][OrdCallNext \/ ExecNext]_vars

\* The event loop, its update_quotes / cancel_orders calls and the exchange
\* answering them.
SpecLoop ==
    /\ InitLoop
    /\ [][LoopNext \/ ExecNext]_vars

\* The same entered with at most one order a side.
InitExch ==
    PosInit /\ DiffIdle /\ OrdInit /\ ObInit /\ LoopInitQuoted /\ SideIdle
            /\ QuoterIdle /\ WireIdle /\ RestingSynced(active_orders) /\ FeedIdle

\* The event loop and the exchange: the orders the exchange holds follow the
\* submissions it applies, and the order sync returns them.
SpecExch ==
    /\ InitExch
    /\ [][LoopExchNext \/ ExchNext]_vars

\* The reference feed's task with its timers, and a caller of close().
SpecFeed ==
    /\ Init
    /\ [][FeedTimedNext]_vars
    /\ FeedFairness

\* The orderbook stream's task and the WebSocket client feeding it, on a
\* clock that stands still.
SpecBook ==
    /\ Init
    /\ [][ObEnvNext \/ ObTaskNext]_vars

\* The orderbook stream's task with the stale-check interval ticking, fed one
\* kind of delta per market and one snapshot book.
SpecStale ==
    /\ Init
    /\ [][StaleEnvNext \/ StaleTaskNext]_vars

-----------------------------------------------------------------------------
(* Claims on the fair-price estimator *)

\* The stored offsets whose second is after (now - window_ms) / 1000, the
\* quotient taken exactly.
OffsetsInWindow(calc, now_ms) ==
    LET valid == SelectSeq(calc.samples,
                           LAMBDA sm : 1000 * sm.second > now_ms - calc.window_ms) IN
    [i \in 1..Len(valid) |-> valid[i].offset]

\* The k-th smallest of a non-empty list of values.
KthSmallest(values, k) ==
    CHOOSE v \in RangeOf(values) :
        /\ Cardinality({ i \in DOMAIN values : values[i] < v }) < k
        /\ k <= Cardinality({ i \in DOMAIN values : values[i] <= v })

\* Twice the median: the middle element twice for an odd count, the sum of the
\* two middle elements for an even count.
TwiceMedian(values) ==
    LET n == Len(values) IN
    IF n % 2 = 1 THEN 2 * KthSmallest(values, (n + 1) \div 2)
    ELSE KthSmallest(values, n \div 2) + KthSmallest(values, n \div 2 + 1)

\* C20: get_fair_price(reference_mid, now) returns reference_mid plus the
\* median of the stored offsets whose second is greater than
\* (now - window_ms)/1000 when at least min_samples such offsets exist, and
\* none otherwise; the median is the middle element for an odd count and the
\* mean of the two middle elements for an even count.
C20_FairPriceIsMedian ==
    \A i \in DOMAIN fp_out :
        LET call == fp_out[i]
            offsets == OffsetsInWindow(fair_price_calc, call.now_ms) IN
        /\ ~call.panicked
        /\ IF Len(offsets) >= fair_price_calc.min_samples
           THEN /\ call.result # <<>>
                /\ 2 * (call.result[1] - call.reference_mid) = TwiceMedian(offsets)
           ELSE call.result = <<>>

\* The same for a calculator that requires at least one sample.
FairPriceIsMedianOfSome ==
    (fair_price_calc.min_samples >= 1) => C20_FairPriceIsMedian

\* The stored samples, oldest first: the buffer in index order until it is
\* full, from the write position round once it is.
StoredOrder(calc) ==
    IF Len(calc.samples) < MAX_SAMPLES THEN calc.samples
    ELSE SubSeq(calc.samples, calc.head + 1, Len(calc.samples))
         \o SubSeq(calc.samples, 1, calc.head)

\* The seconds of a list of samples increase strictly.
SecondsIncrease(samples) ==
    \A i, j \in DOMAIN samples : i < j => samples[i].second < samples[j].second

\* C21: add_sample stores at most one sample per wall-clock second. A call
\* whose now_ms / 1000 is not greater than the second of the last stored
\* sample leaves the calculator as it was; any other call appends its offset
\* under its second; the stored seconds increase strictly, so of the calls
\* made in one second the first alone is retained.
C21_OneSamplePerSecond ==
    [][fp_add' # <<>> =>
         LET call == fp_add'[1]
             second == call.now_ms \div 1000
             before == StoredOrder(fair_price_calc)
             after == StoredOrder(fair_price_calc') IN
         /\ IF before # <<>> /\ second <= before[Len(before)].second
            THEN fair_price_calc' = fair_price_calc
            ELSE /\ after # <<>>
                 /\ after[Len(after)] = [offset |-> call.offset, second |-> second]
                 /\ \A i \in 1..(Len(after) - 1) :
                        after[i] = before[i + Len(before) + 1 - Len(after)]
         /\ SecondsIncrease(after)
    ]_vars

\* Witness for C21: a sample is stored for the current second and the last
\* add_sample call, made in that second with another offset, was dropped.
C21_Witness ==
    /\ fp_add # <<>>
    /\ fair_price_calc.samples # <<>>
    /\ LET last == fair_price_calc.samples[Len(fair_price_calc.samples)] IN
         /\ last.second = fp_add[1].now_ms \div 1000
         /\ last.offset # fp_add[1].offset
         /\ Len(fair_price_calc.samples) >= 2


-----------------------------------------------------------------------------
(* Claims on the account stream *)

\* The order ids listed in a map of an update.
ListedIds(keys) == { id \in 1..2 : \E k \in keys : ParseId(k) = <<id>> }

\* The entry a map lists for an order id.
Listed(map, id) == map[CHOOSE k \in DOMAIN map : ParseId(k) = <<id>>]

\* The order an update of places, then fills, then cancels leaves for an id:
\* <<>> for none, <<order>> for one.
OrderAfter(orders, data, id) ==
    LET placed == id \in ListedIds(DOMAIN data.places)
        filled == id \in ListedIds(DOMAIN data.fills)
        place == Listed(data.places, id)
        after_place ==
            IF placed
            THEN <<TrackedOrder(id, place.side, place.price, place.current_size,
                                place.market_id)>>
            ELSE IF id \in DOMAIN orders THEN <<orders[id]>> ELSE <<>>
        after_fill ==
            IF ~filled THEN after_place
            ELSE IF Listed(data.fills, id).remaining <= 0 THEN <<>>
            ELSE IF after_place = <<>> THEN <<>>
            ELSE <<[after_place[1] EXCEPT !.size = Listed(data.fills, id).remaining]>> IN
    IF id \in ListedIds(data.cancels) THEN <<>> ELSE after_fill

\* C22: within one account update all places are applied first, then all
\* fills, then all cancels. An order placed and cancelled in the same update
\* is absent afterwards; an order placed and partially filled in the same
\* update (and not cancelled) ends with the size the fill reports as
\* remaining; every order is what the three passes in that order leave.
C22_PlacesFillsCancels ==
    [][acct_last'.kind = "update" =>
         LET data == acct_last'.update IN
         /\ \A id \in ListedIds(DOMAIN data.places) \cap ListedIds(data.cancels) :
                id \notin DOMAIN tracked'
         /\ \A id \in (ListedIds(DOMAIN data.places) \cap ListedIds(DOMAIN data.fills))
                        \ ListedIds(data.cancels) :
                Listed(data.fills, id).remaining > 0 =>
                    /\ id \in DOMAIN tracked'
                    /\ tracked'[id].size = Listed(data.fills, id).remaining
         /\ \A id \in 1..2 :
                IF OrderAfter(tracked, data, id) = <<>>
                THEN id \notin DOMAIN tracked'
                ELSE /\ id \in DOMAIN tracked'
                     /\ tracked'[id] = OrderAfter(tracked, data, id)[1]
    ]_vars

\* Witness for C22: the last update placed and cancelled one order, and placed
\* and partially filled another, which is tracked with the remaining size.
C22_Witness ==
    /\ acct_last.kind = "update"
    /\ LET data == acct_last.update IN
         /\ "1" \in DOMAIN data.places
         /\ "1" \in data.cancels
         /\ 1 \notin DOMAIN tracked
         /\ "2" \in DOMAIN data.places
         /\ "2" \in DOMAIN data.fills
         /\ "2" \notin data.cancels
         /\ data.fills["2"].remaining = 1
         /\ data.places["2"].current_size = 2
         /\ 2 \in DOMAIN tracked
         /\ tracked[2].size = 1

\* The number of events of a list that are for an order id.
EventsFor(events, id) ==
    Cardinality({ i \in DOMAIN events : events[i].order_id = id })

\* C23: for each fill an account update lists, one FillEvent is sent when the
\* fill's quantity is > 0 and none otherwise, carrying the fill's fields. The
\* filled order is removed when remaining <= 0; otherwise an order that is
\* tracked (after the places of the update) gets size = remaining and an
\* order that is not tracked is not created. (Orders the update also cancels
\* are left to the cancel pass.)
C23_FillEvents ==
    [][acct_last'.kind = "update" =>
         LET data == acct_last'.update
             events == acct_last'.events
             filled == ListedIds(DOMAIN data.fills) IN
         /\ \A id \in filled :
                LET fill == Listed(data.fills, id) IN
                /\ EventsFor(events, id) = IF fill.quantity > 0 THEN 1 ELSE 0
                /\ \A i \in DOMAIN events :
                       events[i].order_id = id =>
                           events[i] = [market_id |-> fill.market_id,
                                        order_id |-> id,
                                        price |-> fill.price,
                                        remaining |-> fill.remaining,
                                        side |-> fill.side,
                                        size |-> fill.quantity]
         /\ \A i \in DOMAIN events : events[i].order_id \in filled
         /\ \A id \in filled \ ListedIds(data.cancels) :
                LET fill == Listed(data.fills, id)
                    known == id \in DOMAIN tracked
                                \/ id \in ListedIds(DOMAIN data.places) IN
                IF fill.remaining <= 0 \/ ~known
                THEN id \notin DOMAIN tracked'
                ELSE /\ id \in DOMAIN tracked'
                     /\ tracked'[id].size = fill.remaining
    ]_vars

\* Witness for C23: the last update listed a fill of quantity 0 and a fill of
\* quantity 1 with something remaining for an order that is not tracked; one
\* event was sent and the order was not created.
C23_Witness ==
    /\ acct_last.kind = "update"
    /\ LET data == acct_last.update IN
         /\ DOMAIN data.fills = {"1", "2"}
         /\ data.fills["1"].quantity = 0
         /\ data.fills["2"].quantity = 1
         /\ data.fills["2"].remaining = 1
         /\ data.places = NoOrders
         /\ data.cancels = {}
         /\ Len(acct_last.events) = 1
         /\ acct_last.events[1].order_id = 2
         /\ 2 \notin DOMAIN tracked
         /\ 1 \in DOMAIN tracked

\* C24: when the broadcast signals lag the stream fetches the account over
\* REST. A fetch that succeeds replaces the whole map by the server's open
\* orders; a fetch that fails leaves the map as it was; in both cases the
\* task is back at its receive loop.
C24_LagResyncsOrders ==
    [][/\ acct_last'.kind = "lagged" =>
            /\ acct_pc' = "resync"
            /\ tracked' = tracked
       /\ acct_last'.kind = "resync" =>
            /\ acct_pc = "resync"
            /\ acct_pc' = "select"
            /\ IF acct_last'.server = <<>>
               THEN tracked' = tracked
               ELSE LET orders == acct_last'.server[1] IN
                    /\ DOMAIN tracked' = { orders[i].order_id : i \in DOMAIN orders }
                    /\ \A id \in DOMAIN tracked' :
                           \E i \in DOMAIN orders : tracked'[id] = orders[i]
    ]_vars

\* Witness for C24: a fetch after a lag failed while orders are tracked.
C24_Witness ==
    /\ acct_last.kind = "resync"
    /\ acct_last.server = <<>>
    /\ tracked # NoOrders
    /\ acct_pc = "select"

-----------------------------------------------------------------------------
(* Claims on the orderbook side *)

\* The call of the step was apply_deltas (else set_snapshot).
SideStepIsDeltas == Len(side_deltas') = Len(side_deltas) + 1

\* What the call of the step held before trimming.
SideUntrimmed ==
    IF SideStepIsDeltas
    THEN ApplyEntries(side_levels, side_deltas'[Len(side_deltas')], 1)
    ELSE InsertPositive({}, side_snapshot', 1)

\* C27: after any sequence of set_snapshot and apply_deltas the side holds at
\* most MAX_LEVELS levels; what a call's trimming removed is worse than every
\* level kept (higher for asks, lower for bids) and no more than needed; and
\* get_best is the lowest stored price for asks, the highest for bids, none
\* for an empty side.
C27_TrimAndBest ==
    [][\A kept \in {side_levels'}, untrimmed \in {SideUntrimmed},
         best \in {get_best(side_levels', side_is_ask)} :
       /\ Cardinality(kept) <= MAX_LEVELS
       /\ kept \subseteq untrimmed
       /\ Cardinality(kept) = Min(Cardinality(untrimmed), MAX_LEVELS)
       /\ \A gone \in untrimmed \ kept, l \in kept :
              IF side_is_ask THEN gone.price > l.price ELSE gone.price < l.price
       /\ IF kept = {} THEN best = <<>>
          ELSE /\ best # <<>>
               /\ \E l \in kept : l.price = best[1]
               /\ \A l \in kept :
                      IF side_is_ask THEN best[1] <= l.price ELSE best[1] >= l.price
    ]_vars

\* Witness for C27: an ask side loaded from a snapshot of MAX_LEVELS + 2
\* levels holds MAX_LEVELS of them, the two highest gone.
C27_Witness ==
    /\ side_is_ask
    /\ side_deltas = <<>>
    /\ Len(side_snapshot) = MAX_LEVELS + 2
    /\ Cardinality(side_levels) = MAX_LEVELS
    /\ \A l \in side_levels : l.price <= MAX_LEVELS + 1
    /\ get_best(side_levels, TRUE) = <<2>>

\* C28: after any sequence of set_snapshot and apply_deltas every stored
\* level has a size > 0.
C28_SizesPositive == \A l \in side_levels : l.size > 0

\* The same for a side no delta was applied to since its snapshot.
SnapshotSizesPositive == (side_deltas = <<>>) => C28_SizesPositive

\* A list of entries merged with a delta: the entries at prices the delta
\* does not name, then for each price the delta names its last entry there,
\* unless that has size 0.
Overlay(list, entries) ==
    LET prices == { entries[k].price : k \in DOMAIN entries }
        decides(k) == \A j \in DOMAIN entries :
                         entries[j].price = entries[k].price => j <= k
        deciding == { k \in DOMAIN entries : decides(k) /\ entries[k].size # 0 } IN
    SelectSeq(list, LAMBDA e : e.price \notin prices)
        \o [i \in 1..Cardinality(deciding) |->
               entries[CHOOSE k \in deciding :
                          Cardinality({ j \in deciding : j < k }) = i - 1]]

\* S (+) d1 (+) ... (+) dk from delta i on.
RECURSIVE Merged(_, _, _)
Merged(list, deltas, i) ==
    IF i > Len(deltas) THEN list
    ELSE Merged(Overlay(list, deltas[i]), deltas, i + 1)

\* C29: the side reached by applying the deltas d1..dk one after another
\* to a side loaded from the snapshot S is the side a fresh set_snapshot of
\* S merged with d1..dk gives.
C29_DeltasEqualMergedSnapshot ==
    side_levels = set_snapshot(Merged(side_snapshot, side_deltas, 1), side_is_ask)

\* The entry lists of the history.
SideHistory == <<side_snapshot>> \o side_deltas

\* The same where no size is negative and the prices named are no more than a
\* side holds.
DeltasEqualMergedWithinLimits ==
    (/\ \A h \in DOMAIN SideHistory : \A k \in DOMAIN SideHistory[h] :
            SideHistory[h][k].size >= 0
     /\ Cardinality(UNION { { SideHistory[h][k].price : k \in DOMAIN SideHistory[h] } :
                             h \in DOMAIN SideHistory }) <= MAX_LEVELS)
    => C29_DeltasEqualMergedSnapshot

\* C39: after the stream has handled any event, the price readers obtain
\* from get_mid_price / get_bbo is the best bid and best ask of the stream's
\* current book; with an empty side, or after a reset, they obtain none.
C39_ReadersSeeCurrentBook ==
    IF HasBbo(bids, asks)
    THEN /\ get_mid_price # <<>>
         /\ get_bbo = <<BBO(MaxPrice(bids), MinPrice(asks))>>
    ELSE /\ get_mid_price = <<>>
         /\ get_bbo = <<>>

\* With both sides present readers obtain the best bid and ask of the book.
ReadersSeeTwoSidedBook ==
    HasBbo(bids, asks) =>
        get_bbo = <<BBO(MaxPrice(bids), MinPrice(asks))>>

\* A delta emptied a side of the book and readers still obtain a price.
StalePriceAfterDelta ==
    /\ ob_last = "delta"
    /\ ~HasBbo(bids, asks)
    /\ get_bbo # <<>>

\* The book was reset and readers still obtain the price of the old book.
StalePriceAfterReset ==
    /\ ob_last \in {"stale", "lagged", "refetch_err"}
    /\ bids = {} /\ asks = {}
    /\ get_bbo # <<>>

-----------------------------------------------------------------------------
(* Claims on the quoter and the quoting context *)

\* The calls made: at most one, with its BBO and the quotes returned.
QuoterOutputs == { q_out[i] : i \in DOMAIN q_out }

QuotesOf(o, side) == { o.quotes[i] : i \in { k \in DOMAIN o.quotes : o.quotes[k].side = side } }

\* The largest multiple of the tick that is <= the Decimal x.
FloorToTick(x) == (x.whole \div tick_size) * tick_size

\* The smallest multiple of the tick that is >= the Decimal x.
CeilToTick(x) ==
    IF x.frac = 0 /\ x.whole % tick_size = 0 THEN x.whole
    ELSE (x.whole \div tick_size) * tick_size + tick_size

\* fair - fair * bps / 10_000 and fair + fair * bps / 10_000.
FairMinus(ctx, bps) == DecSub(Dec(ctx.fair_price), SpreadAmount(Dec(ctx.fair_price), bps))

FairPlus(ctx, bps) == DecAdd(Dec(ctx.fair_price), SpreadAmount(Dec(ctx.fair_price), bps))

\* C31: every quote get_quotes returns has a price that is a multiple of
\* tick_size and a size that is a multiple of lot_size, both positive; the
\* result holds at most one Bid and at most one Ask, each only if its side is
\* in allowed_sides.
C31_QuotesAligned ==
    \A o \in QuoterOutputs :
        /\ \A i \in DOMAIN o.quotes :
               /\ o.quotes[i].price.frac = 0
               /\ o.quotes[i].price.whole % tick_size = 0
               /\ o.quotes[i].price.whole > 0
               /\ o.quotes[i].size % lot_size = 0
               /\ o.quotes[i].size > 0
               /\ o.quotes[i].side \in q_ctx.allowed_sides
        /\ \A i, j \in DOMAIN o.quotes :
               o.quotes[i].side = o.quotes[j].side => i = j

\* C31 witness: a fair price that is no multiple of the tick gave a bid and
\* an ask.
C31_Witness ==
    /\ q_ctx.fair_price % tick_size # 0
    /\ \E o \in QuoterOutputs : Len(o.quotes) = 2

\* C32: the bid is floor((fair - spread) / tick) * tick and the ask is
\* ceil((fair + spread) / tick) * tick; with a BBO a bid that would be >=
\* best_ask becomes the floored best_ask - tick and an ask that would be <=
\* best_bid becomes the ceiled best_bid + tick, so every returned bid is
\* below best_ask and every returned ask above best_bid; without a BBO the
\* prices are not clamped.
C32_PricesAndClamp ==
    \A o \in QuoterOutputs :
        LET raw_bid == FloorToTick(FairMinus(q_ctx, bps_used(q_ctx)))
            raw_ask == CeilToTick(FairPlus(q_ctx, bps_used(q_ctx)))
            clamp_bid == \E b \in { o.bbo[i] : i \in DOMAIN o.bbo } : raw_bid >= b.best_ask
            clamp_ask == \E b \in { o.bbo[i] : i \in DOMAIN o.bbo } : raw_ask <= b.best_bid IN
        /\ \A q \in QuotesOf(o, "Bid") :
               /\ q.price.frac = 0
               /\ ~clamp_bid => q.price.whole = raw_bid
               /\ clamp_bid => q.price.whole = FloorToTick(Dec(o.bbo[1].best_ask - tick_size))
               /\ \A i \in DOMAIN o.bbo : q.price.whole < o.bbo[i].best_ask
        /\ \A q \in QuotesOf(o, "Ask") :
               /\ q.price.frac = 0
               /\ ~clamp_ask => q.price.whole = raw_ask
               /\ clamp_ask => q.price.whole = CeilToTick(Dec(o.bbo[1].best_bid + tick_size))
               /\ \A i \in DOMAIN o.bbo : q.price.whole > o.bbo[i].best_bid

\* C32 witness: with fair 49970.00 and a best ask of 49930.00 the bid was
\* clamped to 49929.99.
C32_Witness ==
    /\ q_ctx.fair_price = 9994000
    /\ \E o \in QuoterOutputs :
           /\ o.bbo = <<BBO(9990000, 9986000)>>
           /\ \E q \in QuotesOf(o, "Bid") : q.price.whole = 9985998

\* With a best bid at the raw ask the ask was clamped one tick above it.
AskWasClamped ==
    \E o \in QuoterOutputs :
        /\ o.bbo = <<BBO(10008000, 10010000)>>
        /\ \E q \in QuotesOf(o, "Ask") : q.price.whole = 10008002

\* C33: the context the tracker builds is in close mode exactly when
\* |size_base * fair| >= close_threshold_usd; it allows both sides outside
\* close mode, only Ask in close mode with a long position and only Bid in
\* close mode with a short position.
C33_CloseModeSides ==
    [][q_ctx' # q_ctx =>
         \A ctx \in {q_ctx'} :
            LET size == ctx.position_state.size_base
                closing == /\ ctx.fair_price # 0
                           /\ Abs(size) >= (CloseThresholdUsd * UsdUnits
                                              + Abs(ctx.fair_price) - 1)
                                                 \div Abs(ctx.fair_price) IN
            /\ ctx.position_state.is_close_mode <=> closing
            /\ ~closing => ctx.allowed_sides = {"Bid", "Ask"}
            /\ (closing /\ size > 0) => ctx.allowed_sides = {"Ask"}
            /\ (closing /\ size < 0) => ctx.allowed_sides = {"Bid"}
      ]_vars

\* C33 witness: a short position worth exactly the threshold at the fair
\* price is in close mode and may only bid.
C33_Witness ==
    /\ q_ctx.position_state.size_base = 0 - 20
    /\ q_ctx.fair_price = 10000000
    /\ q_ctx.position_state.is_close_mode
    /\ q_ctx.allowed_sides = {"Bid"}

\* The same position just below the threshold quotes both sides.
BelowThresholdBothSides ==
    /\ q_ctx.position_state.size_base = 20
    /\ q_ctx.fair_price = 9994000
    /\ ~q_ctx.position_state.is_close_mode
    /\ q_ctx.allowed_sides = {"Bid", "Ask"}

\* C34: in close mode the spread is take_profit_bps and the size is
\* floor(|size_base| / lot) * lot; in normal mode the spread is spread_bps
\* and the size floor((order_size_usd / fair) / lot) * lot; in both modes
\* nothing is returned when the size is <= 0. S2: long 0.1234 at fair 50000
\* gives a single Ask at 50000.50 of size 0.1234.
C34_ModeSizeAndSpread ==
    \A o \in QuoterOutputs :
        LET closing == q_ctx.position_state.is_close_mode
            bps == IF closing THEN take_profit_bps ELSE spread_bps
            size == IF closing
                    THEN (Abs(q_ctx.position_state.size_base) \div lot_size) * lot_size
                    ELSE usd_to_size(q_ctx.fair_price) IN
        /\ size <= 0 => o.quotes = <<>>
        /\ \A i \in DOMAIN o.quotes : o.quotes[i].size = size
        /\ o.bbo = <<>> =>
              /\ \A q \in QuotesOf(o, "Bid") :
                     q.price = Dec(FloorToTick(FairMinus(q_ctx, bps)))
              /\ \A q \in QuotesOf(o, "Ask") :
                     q.price = Dec(CeilToTick(FairPlus(q_ctx, bps)))
        /\ (/\ q_ctx.fair_price = 10000000
            /\ q_ctx.position_state.size_base = 12340
            /\ closing
            /\ q_ctx.allowed_sides = {"Ask"}
            /\ o.bbo = <<>>)
              => o.quotes = <<Quote("Ask", Dec(10000100), 12340)>>
        /\ (/\ q_ctx.fair_price = 10000000
            /\ ~closing
            /\ q_ctx.allowed_sides = {"Bid", "Ask"}
            /\ o.bbo = <<>>)
              => o.quotes = <<Quote("Bid", Dec(9992000), 6000),
                              Quote("Ask", Dec(10008000), 6000)>>

\* C34 witness: scenario S2, built by the tracker from a long position of
\* 0.1234 at fair 50000.00, and called without a BBO.
C34_Witness ==
    /\ q_ctx.fair_price = 10000000
    /\ q_ctx.position_state.size_base = 12340
    /\ q_ctx.position_state.is_close_mode
    /\ q_ctx.allowed_sides = {"Ask"}
    /\ \E o \in QuoterOutputs : o.bbo = <<>> /\ Len(o.quotes) = 1

\* A close-mode position of less than a lot gives no quote.
SmallPositionNoQuote ==
    /\ q_ctx.position_state.is_close_mode
    /\ q_ctx.position_state.size_base = 1
    /\ \E o \in QuoterOutputs : o.quotes = <<>>

-----------------------------------------------------------------------------
(* Claims on wire scaling *)

\* round(mant * 10^e), halves away from zero, as mant' * 10^exp'.
RoundScaled(mant, e) ==
    IF mant = 0 THEN Scaled("ok", 0, 0)
    ELSE IF e >= 0 THEN Scaled("ok", mant, e)
    ELSE Scaled("ok", (2 * mant + Pow10(0 - e)) \div (2 * Pow10(0 - e)), 0)

\* What the wire-scaling rule asks of to_scaled_u64(x, decimals).
ExpectedScaled(x, decimals) ==
    LET e == x.exp + decimals IN
    IF x.neg THEN Scaled("overflow", 0, 0)
    ELSE IF e >= 0 /\ Exceeds(x.mant, e, U64Digits, U64Lead)
    THEN Scaled("overflow", 0, 0)
    ELSE RoundScaled(x.mant, e)

\* C37: to_scaled_u64(x, d) returns round(x * 10^d) when that value fits in
\* an unsigned 64-bit integer, and an overflow error, never a wrapped or
\* altered integer, when x is negative or the scaled value does not fit.
C37_ScaledIsRounded ==
    w_out # <<>> => w_out[1] = ExpectedScaled(w_x, w_decimals)

\* The conversions the callers rely on are exact: a non-negative x with no
\* more than `decimals` decimals whose scaled value fits is returned scaled.
WireExactWhenAligned ==
    (/\ w_out # <<>>
     /\ ~w_x.neg
     /\ w_decimals <= MaxPow10
     /\ w_x.exp + w_decimals >= 0
     /\ ~Exceeds(w_x.mant, w_x.exp + w_decimals, U64Digits, U64Lead))
        => w_out[1] = ExpectedScaled(w_x, w_decimals)

\* A fraction beyond `decimals` was dropped: 1.557 at two decimals is 155.
WireTruncated ==
    /\ w_out = <<Scaled("ok", 155, 0)>>
    /\ w_x = Decimal(FALSE, 1557, 0 - 3)
    /\ w_decimals = 2

\* The multiplication panicked instead of returning the overflow error.
WirePanicked ==
    /\ w_out = <<Scaled("panic", 0, 0)>>
    /\ w_decimals <= MaxPow10

-----------------------------------------------------------------------------
(* Claims on the position tracker *)

AllFillsReturned == \A c \in Callers : fill_pc[c] = "idle"

\* C2: once every concurrent apply_fill call has returned, the base size is
\* the initial size (0) plus +size for every Bid fill and -size for every Ask
\* fill: no fill is lost and none is applied twice.
C2_FillsAllApplied == AllFillsReturned => base_size = 0 + fill_sum

\* C2 witness: several calls were made, one of them had to retry its
\* compare-exchange because another call got in between, and all returned.
C2_Witness ==
    /\ AllFillsReturned
    /\ fill_calls = MaxFillCalls
    /\ fill_retried
    /\ base_size # 0

\* C3: every mutation of the cell is a compare-and-swap against the value the
\* mutating task read: the reconciliation task's write happens only while the
\* cell still holds the local_size it read, so a fill applied between its read
\* and its write is not overwritten.
C3_SyncWriteIsCas ==
    [][(sync_pc = "loaded" /\ sync_pc' = "idle" /\ base_size' # base_size)
         => base_size = sync_local]_vars

\* The signed size the account reports for market m: that of its first
\* position of the market if it has a perp leg, 0 otherwise.
SignedSizeOf(account, m) ==
    LET mine == { i \in DOMAIN account : account[i].market_id = m } IN
    IF mine = {} THEN 0
    ELSE LET first == CHOOSE i \in mine : \A j \in mine : i <= j IN
         IF ~account[first].has_perp THEN 0
         ELSE IF account[first].is_long THEN account[first].base_size
         ELSE 0 - account[first].base_size

\* sync_from_server returns on this step, after a fetch that succeeded.
SyncReturns == sync_pc = "loaded" /\ sync_pc' = "idle"

\* sync_from_server returns on this step because the fetch failed.
SyncFails == sync_pc = "idle" /\ sync_last' # sync_last /\ sync_last'.kind = "failed"

\* C35: a reconciliation compares the local size it read with the signed
\* size the server reports for the configured market (0 if it reports no
\* position there); it stores the server's size if they differ by more than
\* 1e-4 and leaves the cell as it is if they differ by at most 1e-4, and a
\* failed fetch leaves the cell as it is.
C35_SyncOverwritesOnDrift ==
    [][/\ SyncReturns =>
             /\ sync_server = SignedSizeOf(sync_last.account, MarketId)
             /\ Abs(sync_local - sync_server) > DriftEps
                    => base_size' = sync_server
             /\ Abs(sync_local - sync_server) <= DriftEps
                    => base_size' = base_size
       /\ SyncFails => base_size' = base_size
      ]_vars

\* C35 witness: the account listed another market's position before the
\* configured market's, the local size was off by more than 1e-4, and the
\* cell now holds the server's size.
C35_Witness ==
    /\ sync_last.kind = "done"
    /\ Len(sync_last.account) = 2
    /\ Abs(sync_last.local - sync_last.server) > DriftEps
    /\ sync_last.server # 0
    /\ base_size = sync_last.server

\* A reconciliation has left a difference of exactly 1e-4 in place.
SyncKeptSmallDrift ==
    /\ sync_last.kind = "done"
    /\ Abs(sync_last.local - sync_last.server) = DriftEps
    /\ base_size = sync_last.local

-----------------------------------------------------------------------------
(* Claims on the event loop *)

\* C1: the loop never has more than one atomic submit in flight: a submit
\* starts only when none is in flight, and while one is in flight the loop is
\* suspended in the call that made it: it handles no event and its cache of
\* orders and the position are not touched until the receipt is back.
C1_OneSubmitInFlight ==
    [][/\ in_flight' <= 1
       /\ in_flight' > in_flight => in_flight = 0
       /\ in_flight > 0 =>
             /\ loop_pc \in {"update", "fill_cancel", "shutdown_cancel"}
             /\ UNCHANGED <<loop_pc, active_orders, base_size>>
             /\ in_flight' <= in_flight
      ]_vars

\* C1 witness: the second chunk of a fill-triggered cancel is in flight, the
\* first one having been answered.
C1_Witness ==
    /\ in_flight = 1
    /\ loop_pc = "fill_cancel"
    /\ call_idx = 2
    /\ Len(submitted) = 2

\* One Cancel per order of the list, in list order.
CancelsOf(orders) ==
    [i \in 1..Len(orders) |-> [kind |-> "Cancel", order_id |-> orders[i].order_id]]

\* seq starts with the elements of prefix.
StartsWith(seq, prefix) ==
    /\ Len(prefix) <= Len(seq)
    /\ prefix = SubSeq(seq, 1, Len(prefix))

\* C11: when a chunk of a quote update fails the loop's cache of orders becomes
\* empty, the orders the failed call had kept or placed included; the cache
\* is then changed only by the loop's own later calls and by a successful
\* order sync, which stores the orders the server reports; a failed order
\* sync leaves the cache as it is.
C11_FailedUpdateClearsCache ==
    [][/\ (loop_pc = "update" /\ call_pc = "err" /\ loop_pc' # loop_pc) =>
             /\ active_orders' = <<>>
             /\ loop_pc' = "select"
       /\ (loop_pc = "order_sync" /\ loop_last'.kind = "sync_err") =>
             UNCHANGED active_orders
       /\ (loop_pc = "order_sync" /\ loop_last'.kind = "sync_ok") =>
             active_orders' \in ServerOrderLists
       /\ (active_orders' # active_orders) =>
             \/ loop_pc \in {"update", "fill_cancel"}
             \/ loop_pc = "order_sync" /\ loop_last'.kind = "sync_ok"
      ]_vars

\* C11 witness: the second chunk of an update failed after the first had
\* placed an order, and the cache is empty.
C11_Witness ==
    /\ loop_last.kind = "update_err"
    /\ loop_last.lost > 0
    /\ active_orders = <<>>

\* C12: after a successful quote update every order of the cache matches one
\* of the quotes derived for that update in side, price and size, and there
\* are at most two; when no quote is derived the orders that were active are
\* cancelled and the cache becomes empty.
C12_UpdateReconciles ==
    [][/\ (loop_pc = "update" /\ call_pc = "ok" /\ loop_pc' # loop_pc) =>
             /\ Len(active_orders') <= 2
             /\ \A i \in DOMAIN active_orders' : \E j \in DOMAIN call_quotes :
                  SameQuote(active_orders'[i], call_quotes[j])
       /\ (quote_started' # quote_started /\ loop_last'.kind = "no_quotes") =>
             active_orders' = <<>>
      ]_vars

\* The first half of C12 alone.
UpdateResultMatchesQuotes ==
    [][(loop_pc = "update" /\ call_pc = "ok" /\ loop_pc' # loop_pc) =>
          /\ Len(active_orders') <= 2
          /\ \A i \in DOMAIN active_orders' : \E j \in DOMAIN call_quotes :
               SameQuote(active_orders'[i], call_quotes[j])
      ]_vars

\* C13: a fill after which the position is in close mode while the cache is
\* not empty makes the loop submit cancels for all cached orders at once and
\* empty the cache, whether or not the cancel succeeds, before it handles any
\* other event; any other fill submits nothing and leaves the cache as it is.
C13_CloseModeCancelsAll ==
    [][/\ (base_size' # base_size) =>
             IF /\ Abs(base_size' * loop_last'.price) >= CloseThresholdUsd * 10000
                /\ active_orders # <<>>
             THEN /\ loop_pc' = "fill_cancel"
                  /\ call_pc' = "send"
                  /\ call_actions' = CancelsOf(active_orders)
                  /\ UNCHANGED active_orders
             ELSE /\ loop_pc' = "select"
                  /\ call_pc' = "idle"
                  /\ UNCHANGED <<active_orders, submitted, in_flight>>
       /\ (loop_pc = "fill_cancel") =>
             /\ loop_pc' \in {"fill_cancel", "select"}
             /\ StartsWith(CancelsOf(active_orders), Flatten(submitted'))
             /\ (loop_pc' = "fill_cancel") => UNCHANGED active_orders
             /\ (loop_pc' = "select") =>
                   /\ active_orders' = <<>>
                   /\ (call_pc = "ok") => Flatten(submitted) = CancelsOf(active_orders)
      ]_vars

\* C13 witness: the cancel that a fill into close mode triggered has failed
\* and the cache is empty.
C13_Witness ==
    /\ loop_last.kind = "fill_cancel_err"
    /\ active_orders = <<>>
    /\ loop_pc = "select"
    /\ is_close_mode(base_size, loop_last.price)

\* C14: once the loop takes the shutdown signal it handles no more price, fill
\* or sync event; it submits cancels for exactly the cached orders, nothing
\* when there is none, then closes the reference feed, the orderbook stream
\* and the account stream, in this order, and returns Ok, whether or not the
\* cancel succeeded.
C14_ShutdownCancelsAndCloses ==
    [][/\ (loop_pc = "select" /\ loop_pc' \in {"shutdown_cancel", "done"}) =>
             /\ cancelled
             /\ IF active_orders = <<>>
                THEN /\ loop_pc' = "done"
                     /\ UNCHANGED <<submitted, in_flight, call_pc>>
                ELSE /\ loop_pc' = "shutdown_cancel"
                     /\ call_pc' = "send"
                     /\ call_actions' = CancelsOf(active_orders)
       /\ (loop_pc = "shutdown_cancel") =>
             /\ loop_pc' \in {"shutdown_cancel", "done"}
             /\ StartsWith(CancelsOf(active_orders), Flatten(submitted'))
             /\ (loop_pc' = "done" /\ call_pc = "ok") =>
                   Flatten(submitted) = CancelsOf(active_orders)
       /\ (loop_pc \in {"shutdown_cancel", "done"}) =>
             UNCHANGED <<active_orders, base_size, fair_price_calc,
                         binance_price, price_rx, loop_update_time>>
       /\ (loop_pc = "done") => UNCHANGED <<loop_pc, ordVars, closed>>
       /\ (loop_pc' = "done") =>
             closed' = <<"binance_feed", "orderbook", "account_stream">>
       /\ (loop_pc' # "done") => closed' = <<>>
      ]_vars

\* C14 witness: run has returned after a shutdown cancel that failed.
C14_Witness ==
    /\ loop_pc = "done"
    /\ loop_last.kind = "shutdown_cancel_err"
    /\ active_orders # <<>>
    /\ Len(closed) = 3

\* C16: a quote update is started only when at least update_throttle has
\* passed since the previous one was started, or since the loop was set up;
\* no fill, order sync or local-venue price in between shortens the wait.
C16_UpdatesThrottled ==
    [][/\ (loop_pc = "select" /\ loop_pc' = "update") => quote_started' = <<now>>
       /\ (quote_started' # quote_started) =>
             /\ quote_started' = <<now>>
             /\ now - (IF quote_started = <<>> THEN StartTime ELSE quote_started[1])
                  >= update_throttle
      ]_vars

\* C16 witness: half a second after a quote update, with a fill handled in
\* between, a reference price found the estimator ready and was throttled.
C16_Witness ==
    /\ loop_last.kind = "throttled"
    /\ quote_started # <<>>
    /\ now - quote_started[1] = 500
    /\ base_size # 0

\* C17: a quote update is started only by the handler of a reference-venue
\* price, and only when at least min_samples stored offsets are in the window;
\* the handler of a local-venue price records at most a sample: it starts no
\* update and submits nothing.
C17_NoQuoteBeforeReady ==
    [][/\ (quote_started' # quote_started \/ (loop_pc = "select" /\ loop_pc' = "update")) =>
             /\ Len(OffsetsInWindow(fair_price_calc', now))
                  >= fair_price_calc'.min_samples
             /\ binance_price' # <<>>
             /\ loop_last'.kind \in {"update", "no_quotes"}
       /\ (loop_pc = "select" /\ loop_last'.kind = "zo_price") =>
             UNCHANGED <<loop_pc, active_orders, ordVars, quote_started,
                         loop_update_time>>
      ]_vars

\* C17 witness: a reference price found two samples stored but fewer in the
\* window, and the loop went on warming up.
C17_Witness ==
    /\ loop_last.kind = "warmup"
    /\ fair_price_calc.count = 2
    /\ Len(OffsetsInWindow(fair_price_calc, now)) = 1
    /\ quote_started = <<>>

\* Every task of the run but the WebSocket client's has ended.
OtherTasksExited ==
    /\ loop_pc = "done"
    /\ feed_pc = "exited"
    /\ ob_pc = "exited"
    /\ acct_pc = "exited"
    /\ possync_pc = "exited"

\* C15: once cancellation is triggered every long-lived task eventually
\* ends: the event loop, the reference feed, the orderbook stream, the
\* account stream, the position-sync task and the exchange WebSocket client
\* task, whatever each was doing when the signal fired.
C15_AllTasksTerminate ==
    cancelled ~> (OtherTasksExited /\ ws_pc = "exited")

\* The same without the WebSocket client task.
OtherTasksTerminate == cancelled ~> OtherTasksExited

\* The loop ran its fill handler in this step.
FillHandled ==
    /\ loop_pc = "select"
    /\ loop_last'.kind = "fill"
    /\ base_size' # base_size \/ loop_pc' = "fill_cancel"

\* C38: the tracked position is changed only by fills of the configured
\* market: a fill event of another market does not alter the base size and
\* cannot trigger the close-mode cancel of the bot's orders.
C38_OnlyOwnMarketFills ==
    [][FillHandled => loop_last'.market_id = MarketId]_vars

\* A fill of another market started the close-mode cancel.
OtherMarketFillCancels ==
    /\ loop_pc = "fill_cancel"
    /\ loop_last.kind = "fill"
    /\ loop_last.market_id # MarketId

\* The exchange's open orders of the account on a side.
RestingOn(side) == { o \in resting : o.side = side }

\* C40: at any time the bot has at most one resting bid and one resting ask
\* on the exchange: no order it placed is left resting outside active_orders
\* while it places further quotes, also after a failed submission.
C40_OneRestingPerSide ==
    \A side \in Sides : Cardinality(RestingOn(side)) <= 1

\* An order rests on the exchange and the loop's cache does not hold it.
RestingOutsideCache ==
    /\ loop_pc = "select"
    /\ \E o \in resting : \A i \in DOMAIN active_orders : active_orders[i] # o

-----------------------------------------------------------------------------
(* Claims on the reference feed *)

\* Shutdown of the feed has been requested.
FeedShutdownRequested == Closed("binance_feed")

\* The reasons for which run_price_connection returns an error.
FeedEndReasons ==
    ConnFailures \cup {"connect_error", "pong_timeout", "stale"}

\* A connection, or an attempt at one, has just ended with an error.
FeedEnded == feed_last.kind \in FeedEndReasons /\ feed_last.waited = 0

\* A connection that ends for another reason than shutdown is followed by a
\* wait of RECONNECT_DELAY.
FeedWaitsAfterError ==
    [][(feed_last'.kind \in FeedEndReasons /\ feed_last'.waited = 0
          /\ feed_last' # feed_last /\ ~FeedShutdownRequested)
         => feed_pc' = "backoff" /\ feed_wake' = RECONNECT_DELAY]_vars

\* The task connects again only after it has waited RECONNECT_DELAY.
FeedReconnectsAfterDelay ==
    [][(feed_pc # "connecting" /\ feed_pc' = "connecting")
         => feed_pc = "backoff" /\ feed_last'.waited = RECONNECT_DELAY]_vars

\* The wait ends in a new connection attempt unless shutdown is requested.
FeedReconnects ==
    (feed_pc = "backoff") ~> (feed_pc = "connecting" \/ FeedShutdownRequested)

\* Once shutdown has been requested the task starts no new connection.
FeedNoConnectAfterShutdown ==
    [][FeedShutdownRequested
         => ~(feed_pc # "connecting" /\ feed_pc' = "connecting")]_vars

\* Once shutdown has been requested the task terminates.
FeedTerminates == FeedShutdownRequested ~> (feed_pc = "exited")

\* C36: the reference-feed task reconnects after RECONNECT_DELAY whenever a
\* connection ends for another reason than explicit shutdown (pong timeout,
\* stale check, close frame, read error, connect error), and once shutdown
\* has been requested it never opens a new connection and terminates.
C36_FeedReconnectsUnlessShutdown ==
    /\ FeedWaitsAfterError
    /\ FeedReconnectsAfterDelay
    /\ FeedReconnects
    /\ FeedNoConnectAfterShutdown
    /\ FeedTerminates

\* The task is connecting again although shutdown was requested while it
\* slept.
ConnectingAfterShutdown ==
    /\ feed_pc = "connecting"
    /\ feed_last.kind = "reconnect"
    /\ FeedShutdownRequested

\* A connection ended on a pong that did not come in time.
FeedPongTimedOut == feed_pc = "backoff" /\ feed_last.kind = "pong_timeout"

-----------------------------------------------------------------------------
(* Claims on the orderbook stream *)

\* The task took a delta off the channel in its main loop.
ReceivedInLoop ==
    /\ ob_pc = "select" /\ ob_pc' = "select"
    /\ ~chan_lagged
    /\ chan # <<>>
    /\ chan' = Tail(chan)

BookChanged == bids' # bids \/ asks' # asks \/ last_update_id' # last_update_id

\* C4: once a snapshot is loaded, every delta applied to the book, in the
\* main loop or by the drain after a snapshot, has an update_id greater than
\* last_update_id at the moment it is applied; within an epoch last_update_id
\* only grows, and a received delta with update_id <= last_update_id leaves
\* the book as it was.
C4_AppliedDeltasAreNewer ==
    [][/\ \A i \in 1..Len(ob_applied') :
              ob_applied'[i].update_id > ob_applied'[i].prev_id
       /\ (ob_pc = "select" /\ ob_pc' = "select" /\ snapshot_loaded)
              => /\ last_update_id' >= last_update_id
                 /\ BookChanged => /\ ReceivedInLoop
                                   /\ last_update_id' > last_update_id
                                   /\ last_update_id' = Head(chan).update_id
       /\ (ReceivedInLoop /\ snapshot_loaded
              /\ Head(chan).update_id <= last_update_id) => ~BookChanged
      ]_vars

\* C4 witness: the main loop has rejected a delta of its own symbol as not
\* newer than the book it holds.
C4_Witness ==
    /\ ob_last = "old_delta"
    /\ snapshot_loaded
    /\ last_update_id > 0
    /\ bids # {}

\* C5: on "lagged by N" in the main loop the stream clears its state and
\* starts a snapshot fetch; when the snapshot arrives it applies only deltas
\* that were waiting in the channel and have an update_id greater than the
\* snapshot's, sends exactly one depth snapshot, and sends exactly one
\* mid-price if both sides are non-empty and none otherwise.
C5_LagResync ==
    [][/\ (ob_pc = "select" /\ chan_lagged /\ ob_pc' # "select" /\ ob_pc' # "exited")
              => /\ ob_pc' = "fetch_lag"
                 /\ bids' = {} /\ asks' = {}
                 /\ last_update_id' = 0
                 /\ ~snapshot_loaded'
                 /\ delta_buffer' = <<>>
                 /\ emit_depth' = 0 /\ emit_mid' = 0
       /\ (ob_pc = "fetch_lag" /\ snapshot_loaded')
              => /\ \A i \in 1..Len(ob_applied') :
                        /\ ob_applied'[i].update_id > ob_snapshot_id'
                        /\ \E k \in 1..Len(chan) :
                               chan[k].update_id = ob_applied'[i].update_id
                 /\ emit_depth' = 1
                 /\ depth_rx' = <<[asks |-> asks', bids |-> bids']>>
                 /\ emit_mid' = IF bids' # {} /\ asks' # {} THEN 1 ELSE 0
                 /\ (bids' # {} /\ asks' # {}) =>
                        /\ price_rx' # <<>>
                        /\ price_rx'[1].bid = MaxPrice(bids')
                        /\ price_rx'[1].ask = MinPrice(asks')
      ]_vars

\* C5 witness: a lag resync has loaded a snapshot, skipped a waiting delta
\* that the snapshot already covered, applied a newer one and sent both a
\* depth snapshot and a mid-price.
C5_Witness ==
    /\ ob_last = "lag_resync"
    /\ ob_snapshot_id > 0
    /\ ob_applied # <<>>
    /\ emit_depth = 1
    /\ emit_mid = 1

\* C6: a lag signal is a gap wherever it is observed: no delta is applied to
\* the book by a drain whose receiver reported that updates were missed.
C6_NoDeltaAppliedAfterGap ==
    \A i \in 1..Len(ob_applied) : ~ob_applied[i].after_lag

\* The stale-check tick fired in the task's main loop.
StaleTickFired == ob_pc = "select" /\ now' # now

\* C7: a failed re-fetch is retried after the next stale-check tick: a tick
\* that finds the stream in its loop without a snapshot starts a new fetch.
C7_RefetchRetriedAtTick ==
    [][(StaleTickFired /\ ~snapshot_loaded) => ob_pc' = "fetch_stale"]_vars

\* C8: a stale-check tick more than STALE_THRESHOLD_MS after the book was
\* last updated resets and re-fetches, and the time of the last update moves
\* only when a snapshot is loaded or a delta is applied: a received delta
\* that is rejected leaves last_update_time as it was.
C8_StalenessCountsBookUpdates ==
    [][/\ (StaleTickFired /\ snapshot_loaded
              /\ now' - last_update_time > STALE_THRESHOLD_MS)
              => /\ ob_pc' = "fetch_stale"
                 /\ ~snapshot_loaded'
                 /\ bids' = {} /\ asks' = {}
       /\ (ReceivedInLoop /\ snapshot_loaded
              /\ (Head(chan).market_symbol # Symbol
                    \/ Head(chan).update_id <= last_update_id))
              => last_update_time' = last_update_time
      ]_vars

\* The handler the task ran last loaded a snapshot or applied a delta in its
\* main loop.
BookUpdated == ob_last \in {"init", "lag_resync", "stale_resync", "delta"}

\* C25: after a snapshot is loaded and after every delta applied in the main
\* loop the stream sends a depth snapshot of the book as it now is; it sends
\* a mid-price only when both sides have a best price, and that mid-price
\* carries the highest bid, the lowest ask and their mean.
C25_EmitAfterUpdate ==
    /\ BookUpdated =>
          /\ emit_depth = 1
          /\ depth_rx = <<[asks |-> asks, bids |-> bids]>>
          /\ emit_mid = 1 <=> (bids # {} /\ asks # {})
    /\ emit_mid = 1 =>
          /\ bids # {} /\ asks # {}
          /\ price_rx # <<>>
          /\ \A i \in DOMAIN price_rx :
                 /\ price_rx[i].bid = MaxPrice(bids)
                 /\ price_rx[i].ask = MinPrice(asks)
                 /\ price_rx[i].mid = price_rx[i].bid + price_rx[i].ask

\* C25 witness: a delta applied in the main loop to a loaded book left two
\* bids below an ask, and the depth snapshot and the mid-price were sent.
C25_Witness ==
    /\ ob_last = "delta"
    /\ ob_applied # <<>>
    /\ Cardinality(bids) >= 2
    /\ emit_depth = 1
    /\ emit_mid = 1
    /\ \A i \in DOMAIN price_rx : price_rx[i].bid < price_rx[i].ask

\* C26: a mid-price the stream has sent has its bid below its ask.
C26_BidBelowAsk ==
    \A i \in DOMAIN price_rx : price_rx[i].bid < price_rx[i].ask

\* The deltas the main loop applies are of the stream's own market.
LoopAppliesOwnSymbol ==
    ob_last = "delta" =>
        \A i \in DOMAIN ob_applied : ob_applied[i].market_symbol = Symbol

\* C30: every delta applied to the book, by the main loop or by the drain
\* after a snapshot, is of the stream's own market.
C30_OnlyOwnSymbolApplied ==
    \A i \in DOMAIN ob_applied : ob_applied[i].market_symbol = Symbol

====
